---- MODULE Spec2Model ----
(***************************************************************************)
(* Interview session engine of assignment-api: InterviewService            *)
(* (startInterviewSession, getCurrentQuestion, submitAnswer,               *)
(* moveToNextQuestion, completeInterview, getSessionById,                  *)
(* getSessionAnswers, validateSessionOwnership) over the Interview,        *)
(* InterviewSession and Answer repositories, and                           *)
(* EvaluationService.evaluateAnswers, the batch grader.                    *)
(*                                                                         *)
(* Numbers: scores and means are exact rationals <<num, den>> in lowest    *)
(* terms with den > 0; <<0, 0>> stands for NaN (0 / 0 in the source).      *)
(* Timestamps: 0 is null, a positive number is a value of new Date().      *)
(***************************************************************************)
EXTENDS Integers, Sequences, FiniteSets, TLC

\* ------------------------------------------------------------------ bounds
MaxQuestions == 2
MaxOverrun == 1
MaxEvals == 2
MaxGraderFailures == 1
MaxGradedRuns == 1

\* ------------------------------------------------------------- value sets
Users == {"u1", "u2"}
InterviewIds == {"i1", "i2"}
\* the interview ids a caller may name: one more, which names no interview
CallerInterviewIds == InterviewIds \cup {"i0"}
Transcriptions == {"a", "b"}
RawScores == {-3, 6, 12}
\* a timestamp is null (0) or set: the engine compares no two timestamps
Times == {1}
\* the ids the session store hands out, and the ids a caller may name: one more,
\* which never names a session
SessionIds == {1}
CallerSessionIds == SessionIds \cup {Cardinality(SessionIds) + 1}

\* InterviewSessionStatus
NOT_STARTED == "not-started"
IN_PROGRESS == "in-progress"
COMPLETED == "completed"

\* outcomes of a call: the exception thrown, by its message
OK == "ok"
SessionNotFound == "NotFound: Interview session not found"
InterviewNotFound == "NotFound: Interview not found"
NoQuestions == "BadRequest: Interview has no questions"
AlreadyCompleted == "BadRequest: Interview session is already completed"
InvalidIndex == "BadRequest: Invalid question index"
NoAnswers == "BadRequest: No answers found to evaluate"
EvaluationFailed == "BadRequest: Evaluation failed"
StoreFailed == "Error: repository save failed"
Pending == "pending"

\* ---------------------------------------------------------------- numbers
RECURSIVE Gcd(_, _)
Gcd(a, b) == IF b = 0 THEN a ELSE Gcd(b, a % b)

Abs(n) == IF n < 0 THEN -n ELSE n

NaN == <<0, 0>>
Zero == <<0, 1>>

\* n / d as a JavaScript number: exact quotient, NaN for 0 / 0
Div(n, d) ==
    IF d = 0 THEN NaN
    ELSE LET g == Gcd(Abs(n), d) IN <<n \div g, d \div g>>

Num(n) == <<n, 1>>

RECURSIVE SumSeq(_)
SumSeq(s) == IF Len(s) = 0 THEN 0 ELSE Head(s) + SumSeq(Tail(s))

\* scores.reduce((sum, score) => sum + score, 0) / scores.length
MeanOf(scores) == Div(SumSeq(scores), Len(scores))

\* Math.max(0, Math.min(10, score))
Max2(a, b) == IF a >= b THEN a ELSE b
Min2(a, b) == IF a <= b THEN a ELSE b
\* lines 132-135 with the upper limit alone
ClampScoreUpperOnly(score) == Min2(10, score)
ClampScore(score) == Max2(0, Min2(10, score))

\* ------------------------------------------------------------- the catalog
QuestionPool ==
    << [skill |-> "Go", question |-> "q1", category |-> "conceptual"],
       [skill |-> "Go", question |-> "q2", category |-> "design"],
       [skill |-> "SQL", question |-> "q3", category |-> "conceptual"],
       [skill |-> "SQL", question |-> "q4", category |-> "design"] >>

\* an Interview row as generateInterview stores it
InterviewRow(owner, n) ==
    [userId |-> owner,
     questions |-> SubSeq(QuestionPool, 1, n),
     totalQuestions |-> n]

\* Answer.evaluation: null, or the score the grader gave
NoEvaluation == [graded |-> FALSE, score |-> 0]
Evaluation(score) == [graded |-> TRUE, score |-> score]

VARIABLES
    interviews,   \* interviewRepository: interview id -> row
    sessions,     \* sessionRepository: sequence of rows, id = position
    answers,      \* answerRepository: set of rows, id = <<sessionId, questionIndex, copy>>
    call,         \* the completeInterview call in flight (stepwise runs only)
    graderCalls,  \* history: per session, grader calls that succeeded / failed
    submitted,    \* history: per session, index -> last transcription accepted
    last          \* the last call: operation, arguments, outcome, result

vars == <<interviews, sessions, answers, call, graderCalls, submitted, last>>

NoCall == [active |-> FALSE]
NoResult == [has |-> FALSE]

Last(op, sessionId, userId, questionIndex, outcome, result) ==
    [op |-> op, sessionId |-> sessionId, userId |-> userId,
     questionIndex |-> questionIndex, outcome |-> outcome, result |-> result]

Init ==
    /\ \E n \in 0..MaxQuestions :
         interviews = [i \in InterviewIds |->
                         IF i = "i1" THEN InterviewRow("u1", n)
                                     ELSE InterviewRow("u2", 1)]
    /\ sessions = << >>
    /\ answers = {}
    /\ call = NoCall
    /\ graderCalls = [s \in SessionIds |-> [ok |-> 0, failed |-> 0]]
    /\ submitted = [s \in SessionIds |-> << >>]
    /\ last = Last("none", 0, "u1", 0, OK, NoResult)

\* ------------------------------------------------------------ repositories
\* lines 377-379 without userId in the where clause
FindInterviewAnyOwner(id, userId) == id \in DOMAIN interviews

\* interviewRepository.findOne({ where: { id, userId } })
FindInterviewOwned(id, userId) ==
    id \in DOMAIN interviews /\ interviews[id].userId = userId

\* interviewRepository.findOne({ where: { id } })
FindInterview(id) == id \in DOMAIN interviews

\* lines 463-466 without sessionId in the where clause
FindAnswersAnySession(sessionId, questionIndex) ==
    {a \in answers : a.questionIndex = questionIndex}

\* answerRepository.findOne({ where: { sessionId, questionIndex } }): the rows
\* that match; findOne returns one of them
FindAnswers(sessionId, questionIndex) ==
    {a \in answers : a.sessionId = sessionId /\ a.questionIndex = questionIndex}

\* answerRepository.find({ where: { sessionId }, order: { questionIndex: 'ASC' } })
AnswersOfSession(sessionId) == {a \in answers : a.sessionId = sessionId}

RECURSIVE SortAnswers(_)
SortAnswers(rows) ==
    IF rows = {} THEN << >>
    ELSE LET first == CHOOSE a \in rows :
                        \A b \in rows :
                          \/ a.questionIndex < b.questionIndex
                          \/ a.questionIndex = b.questionIndex /\ a.copy <= b.copy
         IN <<first>> \o SortAnswers(rows \ {first})

FindSessionAnswers(sessionId) == SortAnswers(AnswersOfSession(sessionId))

\* validateSessionOwnership without the check of line 676
SessionExists(sessionId, userId) == sessionId \in 1..Len(sessions)

\* validateSessionOwnership: the session row, or NotFound
SessionOwned(sessionId, userId) ==
    /\ sessionId \in 1..Len(sessions)
    /\ sessions[sessionId].userId = userId

\* lines 672-678 with another exception for a session of somebody else
OwnershipErrorForbidden(sessionId, userId) ==
    IF sessionId \notin 1..Len(sessions)
    THEN SessionNotFound
    ELSE "Forbidden: Interview session belongs to another user"

\* what validateSessionOwnership throws: line 673 for no session, line 677 for
\* a session of somebody else
OwnershipError(sessionId, userId) ==
    IF sessionId \notin 1..Len(sessions)
    THEN SessionNotFound
    ELSE SessionNotFound

\* interview.questions[index], undefined (no question) outside the array
QuestionAt(interviewId, index) ==
    IF index >= 0 /\ index < Len(interviews[interviewId].questions)
    THEN [has |-> TRUE, question |-> interviews[interviewId].questions[index + 1]]
    ELSE NoResult

\* question.question of line 479; reading it off a missing question is a TypeError
QuestionTextAt(interviewId, index) ==
    IF QuestionAt(interviewId, index).has
    THEN QuestionAt(interviewId, index).question.question
    ELSE "TypeError"

\* line 445 refusing also a session whose cursor has moved
SubmitRejectedOnceAdvanced(session) ==
    session.status = COMPLETED \/ session.currentQuestionIndex > 0

\* the status checks of lines 445, 500 and 543
SubmitRejected(session) == session.status = COMPLETED
AdvanceNeverRejected(session) == FALSE
AdvanceRejected(session) == session.status = COMPLETED
\* completeInterview without the short-circuit of lines 543-571
AlreadyEvaluatedNever(session) == FALSE
AlreadyEvaluated(session) == session.status = COMPLETED

\* line 457 with > for >=
InvalidQuestionIndexOffByOne(questionIndex, questions) ==
    questionIndex < 0 \/ questionIndex > Len(questions)

\* line 457
InvalidQuestionIndex(questionIndex, questions) ==
    questionIndex < 0 \/ questionIndex >= Len(questions)

\* line 579 left out
NoAnswersIgnored(loaded) == FALSE

\* line 579
NoAnswersFound(loaded) == Len(loaded) = 0

\* --------------------------------------------------------------- operations
\* a nullable column that was never written
NullColumn == [has |-> FALSE]

\* line 393 with 1 for 0
NewSessionAtOne(interviewId, userId, now) ==
    [interviewId |-> interviewId,
     userId |-> userId,
     currentQuestionIndex |-> 1,
     status |-> IN_PROGRESS,
     startedAt |-> now,
     completedAt |-> 0,
     overallScore |-> [has |-> FALSE],
     summary |-> [has |-> FALSE],
     recommendations |-> [has |-> FALSE],
     skillBreakdown |-> [has |-> FALSE],
     categoryBreakdown |-> [has |-> FALSE],
     performanceMetrics |-> [has |-> FALSE]]

\* lines 390-396; completedAt and the score columns of the entity are nullable
\* and not given here, so they are null in the new row
NewSession(interviewId, userId, now) ==
    [interviewId |-> interviewId,
     userId |-> userId,
     currentQuestionIndex |-> 0,
     status |-> IN_PROGRESS,
     startedAt |-> now,
     completedAt |-> 0,
     overallScore |-> NullColumn,
     summary |-> NullColumn,
     recommendations |-> NullColumn,
     skillBreakdown |-> NullColumn,
     categoryBreakdown |-> NullColumn,
     performanceMetrics |-> NullColumn]

\* what a start call was asked and what it returned
StartCall(interviewId, result) == [interviewId |-> interviewId] @@ result

startInterviewSession(userId, interviewId) ==
    /\ Len(sessions) < Cardinality(SessionIds)
    /\ IF ~FindInterviewOwned(interviewId, userId)
       THEN /\ last' = Last("start", 0, userId, 0, InterviewNotFound,
                            StartCall(interviewId, NoResult))
            /\ UNCHANGED sessions
       ELSE IF Len(interviews[interviewId].questions) = 0
       THEN /\ last' = Last("start", 0, userId, 0, NoQuestions,
                            StartCall(interviewId, NoResult))
            /\ UNCHANGED sessions
       ELSE /\ \E now \in Times :
                 sessions' = Append(sessions, NewSession(interviewId, userId, now))
            /\ last' = Last("start", Len(sessions) + 1, userId, 0, OK,
                            StartCall(interviewId, QuestionAt(interviewId, 0)))
    /\ UNCHANGED <<interviews, answers, call, graderCalls, submitted>>

\* lines 427-434 reading one past the cursor
CursorAfter(session) == session.currentQuestionIndex + 1

\* session.currentQuestionIndex as lines 427-434 read it
CursorOf(session) == session.currentQuestionIndex

getCurrentQuestion(sessionId, userId) ==
    /\ IF ~SessionOwned(sessionId, userId)
       THEN last' = Last("currentQuestion", sessionId, userId, 0, OwnershipError(sessionId, userId), NoResult)
       ELSE IF ~FindInterview(sessions[sessionId].interviewId)
       THEN last' = Last("currentQuestion", sessionId, userId, 0, InterviewNotFound, NoResult)
       ELSE last' = Last("currentQuestion", sessionId, userId, 0, OK,
                         QuestionAt(sessions[sessionId].interviewId,
                                    CursorOf(sessions[sessionId])))
    /\ UNCHANGED <<interviews, sessions, answers, call, graderCalls, submitted>>

\* lines 468-473 clearing the evaluation as well
UpdateAnswerClearsEvaluation(row, transcription, now) ==
    [row EXCEPT !.transcription = transcription, !.answeredAt = now,
                !.evaluation = [graded |-> FALSE, score |-> 0]]

\* the existing row updated in place (lines 468-473)
UpdateAnswer(row, transcription, now) ==
    [row EXCEPT !.transcription = transcription, !.answeredAt = now]

\* the new row (lines 475-485)
NewAnswer(sessionId, questionIndex, questionText, transcription, now) ==
    [sessionId |-> sessionId,
     questionIndex |-> questionIndex,
     copy |-> Cardinality(FindAnswers(sessionId, questionIndex)) + 1,
     questionText |-> questionText,
     transcription |-> transcription,
     answeredAt |-> now,
     evaluation |-> NoEvaluation]

\* lines 475-485 alone: every submission creates a row
UpsertAnswerInsertOnly(sessionId, questionIndex, questionText, transcription, now) ==
    answers' = answers \cup
      {NewAnswer(sessionId, questionIndex, questionText, transcription, now)}

\* lines 463-491: update the existing answer, else create one
UpsertAnswer(sessionId, questionIndex, questionText, transcription, now) ==
    IF FindAnswers(sessionId, questionIndex) # {}
    THEN \E existingAnswer \in FindAnswers(sessionId, questionIndex) :
           answers' = (answers \ {existingAnswer})
                        \cup {UpdateAnswer(existingAnswer, transcription, now)}
    ELSE answers' = answers \cup
           {NewAnswer(sessionId, questionIndex, questionText, transcription, now)}

\* a submitAnswer that moves the cursor on
submitAnswerAdvances(sessionId) ==
    sessions' = [s \in 1..Len(sessions) |->
                   IF s = sessionId
                   THEN [sessions[s] EXCEPT !.currentQuestionIndex = @ + 1]
                   ELSE sessions[s]]

\* lines 437-492 read the session and never save it
submitAnswerSession(sessionId) == UNCHANGED sessions

submitAnswer(sessionId, questionIndex, userId) ==
    /\ IF ~SessionOwned(sessionId, userId)
       THEN /\ last' = Last("submitAnswer", sessionId, userId, questionIndex,
                            OwnershipError(sessionId, userId), NoResult)
            /\ UNCHANGED <<answers, submitted>>
       ELSE IF SubmitRejected(sessions[sessionId])
       THEN /\ last' = Last("submitAnswer", sessionId, userId, questionIndex,
                            AlreadyCompleted, NoResult)
            /\ UNCHANGED <<answers, submitted>>
       ELSE IF ~FindInterview(sessions[sessionId].interviewId)
       THEN /\ last' = Last("submitAnswer", sessionId, userId, questionIndex,
                            InterviewNotFound, NoResult)
            /\ UNCHANGED <<answers, submitted>>
       ELSE IF InvalidQuestionIndex(questionIndex,
                                    interviews[sessions[sessionId].interviewId].questions)
       THEN /\ last' = Last("submitAnswer", sessionId, userId, questionIndex,
                            InvalidIndex, NoResult)
            /\ UNCHANGED <<answers, submitted>>
       ELSE /\ \E transcription \in Transcriptions, now \in Times :
                 /\ UpsertAnswer(sessionId, questionIndex,
                       QuestionTextAt(sessions[sessionId].interviewId, questionIndex),
                       transcription, now)
                 /\ submitted' = [submitted EXCEPT ![sessionId] =
                       [i \in (DOMAIN @) \cup {questionIndex} |->
                          IF i = questionIndex THEN transcription ELSE @[i]]]
            /\ last' = Last("submitAnswer", sessionId, userId, questionIndex, OK,
                            [has |-> TRUE,
                             existing |-> FindAnswers(sessionId, questionIndex) # {}])
    /\ submitAnswerSession(sessionId)
    /\ UNCHANGED <<interviews, call, graderCalls>>

\* line 512 adding 2
NextIndexByTwo(index) == index + 2

\* session.currentQuestionIndex += 1 (line 512)
NextIndex(index) == index + 1

moveToNextQuestion(sessionId, userId) ==
    /\ IF ~SessionOwned(sessionId, userId)
       THEN /\ last' = Last("advance", sessionId, userId, 0, OwnershipError(sessionId, userId), NoResult)
            /\ UNCHANGED sessions
       ELSE IF AdvanceRejected(sessions[sessionId])
       THEN /\ last' = Last("advance", sessionId, userId, 0, AlreadyCompleted, NoResult)
            /\ UNCHANGED sessions
       ELSE IF ~FindInterview(sessions[sessionId].interviewId)
       THEN /\ last' = Last("advance", sessionId, userId, 0, InterviewNotFound, NoResult)
            /\ UNCHANGED sessions
       ELSE /\ sessions[sessionId].currentQuestionIndex
                 < Len(interviews[sessions[sessionId].interviewId].questions) + MaxOverrun
            /\ sessions' = [sessions EXCEPT ![sessionId].currentQuestionIndex =
                              NextIndex(@)]
            /\ last' = Last("advance", sessionId, userId, 0, OK,
                            QuestionAt(sessions[sessionId].interviewId,
                                       NextIndex(sessions[sessionId].currentQuestionIndex)))
    /\ UNCHANGED <<interviews, answers, call, graderCalls, submitted>>

getSessionById(sessionId, userId) ==
    /\ IF ~SessionOwned(sessionId, userId)
       THEN last' = Last("getSessionById", sessionId, userId, 0, OwnershipError(sessionId, userId), NoResult)
       ELSE last' = Last("getSessionById", sessionId, userId, 0, OK,
                         [has |-> TRUE, session |-> sessions[sessionId]])
    /\ UNCHANGED <<interviews, sessions, answers, call, graderCalls, submitted>>

getSessionAnswers(sessionId, userId) ==
    /\ IF ~SessionOwned(sessionId, userId)
       THEN last' = Last("getSessionAnswers", sessionId, userId, 0, OwnershipError(sessionId, userId), NoResult)
       ELSE last' = Last("getSessionAnswers", sessionId, userId, 0, OK,
                         [has |-> TRUE, answers |-> FindSessionAnswers(sessionId)])
    /\ UNCHANGED <<interviews, sessions, answers, call, graderCalls, submitted>>

\* ---------------------------------------------------------------- grading
\* what the model's answer to the grading prompt can be: no usable answer, or
\* a parsed object with an evaluations array and an optional overallScore
GraderEntries == [questionIndex : 0..MaxQuestions, score : RawScores]

GraderOveralls ==
    { [has |-> FALSE, value |-> 0], [has |-> TRUE, value |-> 0],
      [has |-> TRUE, value |-> 8] }

RECURSIVE SeqsUpTo(_, _)
SeqsUpTo(S, n) ==
    IF n = 0 THEN { << >> }
    ELSE LET shorter == SeqsUpTo(S, n - 1)
         IN shorter \cup {Append(s, x) : s \in {q \in shorter : Len(q) = n - 1}, x \in S}

GraderErrors ==
    { [ok |-> FALSE, evaluations |-> << >>, overall |-> [has |-> FALSE, value |-> 0]] }

GraderResponses ==
    GraderErrors \cup [ok : {TRUE}, evaluations : SeqsUpTo(GraderEntries, MaxEvals),
                       overall : GraderOveralls]

\* evaluation.score = Math.max(0, Math.min(10, evaluation.score)) for each entry
ClampEvaluations(evaluations) ==
    [i \in 1..Len(evaluations) |->
       [evaluations[i] EXCEPT !.score = ClampScore(@)]]

ScoresOf(evaluations) == [i \in 1..Len(evaluations) |-> evaluations[i].score]

\* lines 137-142: the supplied overallScore unless it is falsy, else the mean
OverallScore(overall, evaluations) ==
    IF ~overall.has \/ overall.value = 0
    THEN MeanOf(ScoresOf(evaluations))
    ELSE Num(overall.value)

\* EvaluationService.evaluateAnswers: throws, or returns the parsed response
\* (lines 70-72 before the call to the model, 149-161 after it); invoked tells
\* whether the model was called
evaluateAnswers(questions, answerData, response) ==
    IF Len(questions) = 0 \/ Len(answerData) = 0
    THEN [ok |-> FALSE, invoked |-> FALSE, evaluations |-> << >>, overallScore |-> NaN]
    ELSE IF ~response.ok
    THEN [ok |-> FALSE, invoked |-> TRUE, evaluations |-> << >>, overallScore |-> NaN]
    ELSE [ok |-> TRUE, invoked |-> TRUE,
          evaluations |-> ClampEvaluations(response.evaluations),
          overallScore |-> OverallScore(response.overall,
                                        ClampEvaluations(response.evaluations))]

\* line 618 left out: the evaluation is set on the entity and never saved
SaveAnswerLeftOut(store, entity) == store

\* answerRepository.save(answer): the row with the entity's id is replaced
SaveAnswer(store, entity) ==
    {a \in store : ~(/\ a.sessionId = entity.sessionId
                     /\ a.questionIndex = entity.questionIndex
                     /\ a.copy = entity.copy)} \cup {entity}

\* the loop of lines 607-620 creating an answer for an entry that matches none
StoreEvaluationInsertsUnmatched(st, evaluation) ==
    LET hits == {i \in 1..Len(st.loaded) :
                   st.loaded[i].questionIndex = evaluation.questionIndex}
    IN IF hits = {}
       THEN [store |-> st.store \cup
                         {[sessionId |-> st.loaded[1].sessionId,
                           questionIndex |-> evaluation.questionIndex,
                           copy |-> 1,
                           questionText |-> "",
                           transcription |-> "",
                           answeredAt |-> 0,
                           evaluation |-> [graded |-> TRUE, score |-> evaluation.score]]},
             loaded |-> st.loaded]
       ELSE LET i == CHOOSE h \in hits : \A k \in hits : h <= k
                entity == [st.loaded[i] EXCEPT
                             !.evaluation = [graded |-> TRUE, score |-> evaluation.score]]
            IN [store |-> {a \in st.store : ~(/\ a.sessionId = entity.sessionId
                                               /\ a.questionIndex = entity.questionIndex
                                               /\ a.copy = entity.copy)} \cup {entity},
                loaded |-> [st.loaded EXCEPT ![i] = entity]]

\* one turn of the loop of lines 607-620 on st = [store, loaded]: loaded are the
\* entities read at line 574, store the answer rows
StoreEvaluation(st, evaluation) ==
    LET hits == {i \in 1..Len(st.loaded) :
                   st.loaded[i].questionIndex = evaluation.questionIndex}
    IN IF hits = {} THEN st
       ELSE LET i == CHOOSE h \in hits : \A k \in hits : h <= k
                entity == [st.loaded[i] EXCEPT !.evaluation = Evaluation(evaluation.score)]
            IN [store |-> SaveAnswer(st.store, entity),
                loaded |-> [st.loaded EXCEPT ![i] = entity]]

RECURSIVE StoreEvaluations(_, _)
StoreEvaluations(st, evaluations) ==
    IF Len(evaluations) = 0 THEN st
    ELSE StoreEvaluations(StoreEvaluation(st, Head(evaluations)), Tail(evaluations))

\* lines 550-562: what a complete of a COMPLETED session returns
RECURSIVE StoredEvaluations(_)
StoredEvaluations(loaded) ==
    IF Len(loaded) = 0 THEN << >>
    ELSE (IF Head(loaded).evaluation.graded
          THEN << [questionIndex |-> Head(loaded).questionIndex,
                   score |-> Head(loaded).evaluation.score] >>
          ELSE << >>) \o StoredEvaluations(Tail(loaded))

\* lines 558-562 without the test of scores.length
ReplayOverallScoreMeanOnly(evaluations) == MeanOf(ScoresOf(evaluations))

ReplayOverallScore(evaluations) ==
    IF Len(evaluations) > 0 THEN MeanOf(ScoresOf(evaluations)) ELSE Zero

CompleteResult(path, evaluations, overallScore) ==
    [has |-> TRUE, path |-> path, evaluations |-> evaluations,
     overallScore |-> overallScore]

\* lines 622-625 moved before the grader call of line 601
SessionMarkedBeforeGrading(session) == [session EXCEPT !.status = COMPLETED]

\* the grader's exception leaves line 601 before the session is touched
SessionOnGraderError(session) == session

\* lines 622-625
CompleteSession(session, now) ==
    [session EXCEPT !.status = COMPLETED, !.completedAt = now]

\* completeInterview, the grader answering with one of the given responses
completeInterviewWith(sessionId, userId, responses) ==
    /\ IF ~SessionOwned(sessionId, userId)
       THEN /\ last' = Last("complete", sessionId, userId, 0, OwnershipError(sessionId, userId), NoResult)
            /\ UNCHANGED <<sessions, answers, graderCalls>>
       ELSE IF AlreadyEvaluated(sessions[sessionId])
       THEN /\ last' = Last("complete", sessionId, userId, 0, OK,
                 CompleteResult("replay",
                    StoredEvaluations(FindSessionAnswers(sessionId)),
                    ReplayOverallScore(StoredEvaluations(FindSessionAnswers(sessionId)))))
            /\ UNCHANGED <<sessions, answers, graderCalls>>
       ELSE IF NoAnswersFound(FindSessionAnswers(sessionId))
       THEN /\ last' = Last("complete", sessionId, userId, 0, NoAnswers, NoResult)
            /\ UNCHANGED <<sessions, answers, graderCalls>>
       ELSE IF ~FindInterview(sessions[sessionId].interviewId)
       THEN /\ last' = Last("complete", sessionId, userId, 0, InterviewNotFound, NoResult)
            /\ UNCHANGED <<sessions, answers, graderCalls>>
       ELSE \E response \in responses :
              LET loaded == FindSessionAnswers(sessionId)
                  evaluationResult ==
                      evaluateAnswers(interviews[sessions[sessionId].interviewId].questions,
                                      loaded, response)
              IN IF ~evaluationResult.ok
                 THEN /\ graderCalls[sessionId].failed < MaxGraderFailures
                      /\ graderCalls' = [graderCalls EXCEPT ![sessionId].failed =
                                           IF evaluationResult.invoked THEN @ + 1 ELSE @]
                      /\ sessions' = [sessions EXCEPT ![sessionId] =
                                        SessionOnGraderError(@)]
                      /\ last' = Last("complete", sessionId, userId, 0,
                                      EvaluationFailed, NoResult)
                      /\ UNCHANGED answers
                 ELSE /\ answers' =
                           StoreEvaluations([store |-> answers, loaded |-> loaded],
                                            evaluationResult.evaluations).store
                      /\ \E now \in Times :
                           sessions' = [sessions EXCEPT ![sessionId] =
                                          CompleteSession(@, now)]
                      /\ graderCalls' = [graderCalls EXCEPT ![sessionId].ok = @ + 1]
                      /\ last' = Last("complete", sessionId, userId, 0, OK,
                                      CompleteResult("graded",
                                                     evaluationResult.evaluations,
                                                     evaluationResult.overallScore))
    /\ UNCHANGED <<interviews, call, submitted>>

completeInterview(sessionId, userId) ==
    completeInterviewWith(sessionId, userId, GraderResponses)

\* no completeInterview call is between two of its awaits
Idle == call = NoCall

Start ==
    \E u \in Users, i \in CallerInterviewIds : Idle /\ startInterviewSession(u, i)

CurrentQuestion ==
    \E s \in CallerSessionIds, u \in Users : Idle /\ getCurrentQuestion(s, u)

SubmitAnswer ==
    \E s \in CallerSessionIds, u \in Users, q \in -1..MaxQuestions :
      Idle /\ submitAnswer(s, q, u)

Advance ==
    \E s \in CallerSessionIds, u \in Users : Idle /\ moveToNextQuestion(s, u)

GetSession ==
    \E s \in CallerSessionIds, u \in Users : Idle /\ getSessionById(s, u)

GetAnswers ==
    \E s \in CallerSessionIds, u \in Users : Idle /\ getSessionAnswers(s, u)

Complete ==
    \E s \in CallerSessionIds, u \in Users : Idle /\ completeInterview(s, u)

Next ==
    \/ Start
    \/ CurrentQuestion
    \/ SubmitAnswer
    \/ Advance
    \/ GetSession
    \/ GetAnswers
    \/ Complete

Spec == Init /\ [][Next]_vars

\* ------------------------------------------------- completeInterview by steps
\* The same handler cut at its awaits: the checks and the grader call (lines
\* 541-604), one turn of the store loop (607-620), the session save (622-634).
\* A repository save can reject; the handler has no try/catch, so the call ends
\* there with that error and keeps what it had already written.
\* responseContent is what the grader answered (line 103), result what
\* evaluateAnswers made of it
InFlight(sessionId, userId, loaded, responseContent, evaluationResult) ==
    [active |-> TRUE, sessionId |-> sessionId, userId |-> userId,
     session |-> sessions[sessionId], loaded |-> loaded,
     responseContent |-> responseContent,
     result |-> evaluationResult, i |-> 1]

\* the first step, the grader answering with one of the given responses
completeBeginWith(sessionId, userId, responses) ==
    /\ call = NoCall
    /\ IF ~SessionOwned(sessionId, userId)
       THEN /\ last' = Last("complete", sessionId, userId, 0, OwnershipError(sessionId, userId), NoResult)
            /\ UNCHANGED <<sessions, call, graderCalls>>
       ELSE IF AlreadyEvaluated(sessions[sessionId])
       THEN /\ last' = Last("complete", sessionId, userId, 0, OK,
                 CompleteResult("replay",
                    StoredEvaluations(FindSessionAnswers(sessionId)),
                    ReplayOverallScore(StoredEvaluations(FindSessionAnswers(sessionId)))))
            /\ UNCHANGED <<sessions, call, graderCalls>>
       ELSE IF NoAnswersFound(FindSessionAnswers(sessionId))
       THEN /\ last' = Last("complete", sessionId, userId, 0, NoAnswers, NoResult)
            /\ UNCHANGED <<sessions, call, graderCalls>>
       ELSE IF ~FindInterview(sessions[sessionId].interviewId)
       THEN /\ last' = Last("complete", sessionId, userId, 0, InterviewNotFound, NoResult)
            /\ UNCHANGED <<sessions, call, graderCalls>>
       ELSE \E response \in (IF graderCalls[sessionId].ok < MaxGradedRuns
                               THEN responses ELSE GraderErrors) :
              LET loaded == FindSessionAnswers(sessionId)
                  evaluationResult ==
                      evaluateAnswers(interviews[sessions[sessionId].interviewId].questions,
                                      loaded, response)
              IN IF ~evaluationResult.ok
                 THEN /\ graderCalls[sessionId].failed < MaxGraderFailures
                      /\ graderCalls' = [graderCalls EXCEPT ![sessionId].failed =
                                           IF evaluationResult.invoked THEN @ + 1 ELSE @]
                      /\ sessions' = [sessions EXCEPT ![sessionId] =
                                        SessionOnGraderError(@)]
                      /\ last' = Last("complete", sessionId, userId, 0,
                                      EvaluationFailed, NoResult)
                      /\ UNCHANGED call
                 ELSE /\ graderCalls' = [graderCalls EXCEPT ![sessionId].ok = @ + 1]
                      /\ UNCHANGED sessions
                      /\ call' = InFlight(sessionId, userId, loaded, response,
                                           evaluationResult)
                      /\ last' = Last("complete", sessionId, userId, 0, Pending, NoResult)
    /\ UNCHANGED <<interviews, answers, submitted>>

completeBegin(sessionId, userId) ==
    completeBeginWith(sessionId, userId, GraderResponses)

completeStoreEvaluation ==
    /\ call.active
    /\ call.i <= Len(call.result.evaluations)
    /\ LET st == StoreEvaluation([store |-> answers, loaded |-> call.loaded],
                                 call.result.evaluations[call.i])
       IN /\ answers' = st.store
          /\ call' = [call EXCEPT !.loaded = st.loaded, !.i = @ + 1]
    /\ UNCHANGED <<interviews, sessions, graderCalls, submitted, last>>

completeStoreFails ==
    /\ call.active
    /\ call.i <= Len(call.result.evaluations)
    /\ \E k \in 1..Len(call.loaded) :
         call.loaded[k].questionIndex = call.result.evaluations[call.i].questionIndex
    /\ call' = NoCall
    /\ last' = Last("complete", call.sessionId, call.userId, 0, StoreFailed, NoResult)
    /\ UNCHANGED <<interviews, sessions, answers, graderCalls, submitted>>

completeSaveSession ==
    /\ call.active
    /\ call.i > Len(call.result.evaluations)
    /\ \E now \in Times :
         sessions' = [sessions EXCEPT ![call.sessionId] = CompleteSession(call.session, now)]
    /\ call' = NoCall
    /\ last' = Last("complete", call.sessionId, call.userId, 0, OK,
                    CompleteResult("graded", call.result.evaluations,
                                   call.result.overallScore))
    /\ UNCHANGED <<interviews, answers, graderCalls, submitted>>

completeSaveSessionFails ==
    /\ call.active
    /\ call.i > Len(call.result.evaluations)
    /\ call' = NoCall
    /\ last' = Last("complete", call.sessionId, call.userId, 0, StoreFailed, NoResult)
    /\ UNCHANGED <<interviews, sessions, answers, graderCalls, submitted>>

CompleteBegin == \E s \in CallerSessionIds, u \in Users : completeBegin(s, u)

\* the handlers run one at a time; completeInterview runs by steps
NextSteps ==
    \/ Start
    \/ CurrentQuestion
    \/ SubmitAnswer
    \/ Advance
    \/ GetSession
    \/ GetAnswers
    \/ CompleteBegin
    \/ completeStoreEvaluation
    \/ completeStoreFails
    \/ completeSaveSession
    \/ completeSaveSessionFails

SpecSteps == Init /\ [][NextSteps]_vars

\* -------------------------------------------------------- Scoring Aggregator
\* The aggregator of the specification, section 4.3: no code of it is among
\* the sources, which only declare its outputs (the score columns of
\* InterviewSession and the fields of SessionResponseDto). It is a pure
\* function of the (Question, score) pairs of the answers that carry an
\* evaluation, in question order.
MaxAggregated == 3

AggregatedScores == {6, 8, 9, 10}

ScoredPairs(sessionId) ==
    LET loaded == FindSessionAnswers(sessionId)
        questions == interviews[sessions[sessionId].interviewId].questions
        Pairs[i \in 0..Len(loaded)] ==
            IF i = 0 THEN << >>
            ELSE IF loaded[i].evaluation.graded
            THEN Append(Pairs[i - 1],
                        [question |-> questions[loaded[i].questionIndex + 1],
                         score |-> loaded[i].evaluation.score])
            ELSE Pairs[i - 1]
    IN Pairs[Len(loaded)]

PairScores(pairs) == [i \in 1..Len(pairs) |-> pairs[i].score]

\* the scores sorted ascending
RECURSIVE SortAscending(_)
SortAscending(scores) ==
    IF Len(scores) = 0 THEN << >>
    ELSE LET i == CHOOSE k \in 1..Len(scores) :
                    \A j \in 1..Len(scores) :
                      scores[k] < scores[j] \/ (scores[k] = scores[j] /\ k <= j)
         IN <<scores[i]>> \o SortAscending(SubSeq(scores, 1, i - 1)
                                             \o SubSeq(scores, i + 1, Len(scores)))

\* the upper of the two middle values for an even count
MedianUpperMiddle(scores) ==
    IF Len(scores) = 0 THEN Zero
    ELSE Num(SortAscending(scores)[(Len(scores) \div 2) + 1])

\* the middle value for an odd count, the mean of the two middle values for
\* an even count, 0 for no score
Median(scores) ==
    LET sorted == SortAscending(scores)
        n == Len(scores)
    IN IF n = 0 THEN Zero
       ELSE IF n % 2 = 1 THEN Num(sorted[(n + 1) \div 2])
       ELSE Div(sorted[n \div 2] + sorted[(n \div 2) + 1], 2)

PerformanceMetrics(scores) ==
    IF Len(scores) = 0 THEN [min |-> Zero, max |-> Zero, median |-> Zero]
    ELSE [min |-> Num(SortAscending(scores)[1]),
          max |-> Num(SortAscending(scores)[Len(scores)]),
          median |-> Median(scores)]

\* the keys in the order of their last occurrence
RECURSIVE LastSeen(_)
LastSeen(keys) ==
    IF Len(keys) = 0 THEN << >>
    ELSE LET rest == LastSeen(Tail(keys))
         IN IF \E i \in 1..Len(rest) : rest[i] = Head(keys)
            THEN rest ELSE <<Head(keys)>> \o rest

\* the distinct keys in the order of their first occurrence
RECURSIVE FirstSeen(_)
FirstSeen(keys) ==
    IF Len(keys) = 0 THEN << >>
    ELSE LET n == Len(keys)
             rest == FirstSeen(SubSeq(keys, 1, n - 1))
         IN IF \E i \in 1..Len(rest) : rest[i] = keys[n]
            THEN rest ELSE Append(rest, keys[n])

\* the scores of the pairs whose key is the given one, in order
GroupScores(keys, scores, key) ==
    LET Picked[i \in 0..Len(keys)] ==
            IF i = 0 THEN << >>
            ELSE IF keys[i] = key THEN Append(Picked[i - 1], scores[i])
            ELSE Picked[i - 1]
    IN Picked[Len(keys)]

SkillBreakdown(pairs) ==
    LET keys == [i \in 1..Len(pairs) |-> pairs[i].question.skill]
        groups == FirstSeen(keys)
    IN [g \in 1..Len(groups) |->
          [skill |-> groups[g],
           averageScore |-> MeanOf(GroupScores(keys, PairScores(pairs), groups[g])),
           questionCount |-> Len(GroupScores(keys, PairScores(pairs), groups[g]))]]

CategoryBreakdown(pairs) ==
    LET keys == [i \in 1..Len(pairs) |-> pairs[i].question.category]
        groups == FirstSeen(keys)
    IN [g \in 1..Len(groups) |->
          [category |-> groups[g],
           averageScore |-> MeanOf(GroupScores(keys, PairScores(pairs), groups[g])),
           questionCount |-> Len(GroupScores(keys, PairScores(pairs), groups[g]))]]

\* the mean of the scores, 0 when there is none
OverallMean(scores) == IF Len(scores) = 0 THEN Zero ELSE MeanOf(scores)

ScoringAggregator(pairs) ==
    [has |-> TRUE,
     path |-> "aggregated",
     overallScore |-> OverallMean(PairScores(pairs)),
     skillBreakdown |-> SkillBreakdown(pairs),
     categoryBreakdown |-> CategoryBreakdown(pairs),
     performanceMetrics |-> PerformanceMetrics(PairScores(pairs))]

\* question lists of the catalog: up to MaxAggregated questions, none twice
QuestionLists ==
    {q \in SeqsUpTo({QuestionPool[i] : i \in 1..Len(QuestionPool)}, MaxAggregated) :
       /\ Len(q) > 0
       /\ \A i, j \in 1..Len(q) : i # j => q[i] # q[j]}

\* a COMPLETED session of u1 with an answer to every question, each answer
\* evaluated with some score or left without evaluation by the grader
InitAggregate ==
    /\ \E questions \in QuestionLists :
         /\ interviews = [i \in InterviewIds |->
                            IF i = "i1"
                            THEN [userId |-> "u1", questions |-> questions,
                                  totalQuestions |-> Len(questions)]
                            ELSE InterviewRow("u2", 1)]
         /\ \E evaluations \in [1..Len(questions) ->
                                  {NoEvaluation} \cup {Evaluation(x) : x \in AggregatedScores}] :
              answers = { [sessionId |-> 1, questionIndex |-> i - 1, copy |-> 1,
                           questionText |-> questions[i].question,
                           transcription |-> "a", answeredAt |-> 1,
                           evaluation |-> evaluations[i]] : i \in 1..Len(questions) }
         /\ submitted = [s \in SessionIds |-> [i \in 0..(Len(questions) - 1) |-> "a"]]
    /\ sessions = << CompleteSession(NewSession("i1", "u1", 1), 1) >>
    /\ call = NoCall
    /\ graderCalls = [s \in SessionIds |-> [ok |-> 1, failed |-> 0]]
    /\ last = Last("none", 0, "u1", 0, OK, NoResult)

\* complete on a COMPLETED session as section 4.1 states it: the aggregation
\* recomputed from the stored evaluations, the grader not called
completeAggregated(sessionId, userId) ==
    /\ call = NoCall
    /\ SessionOwned(sessionId, userId)
    /\ AlreadyEvaluated(sessions[sessionId])
    /\ last' = Last("complete", sessionId, userId, 0, OK,
                    ScoringAggregator(ScoredPairs(sessionId)))
    /\ UNCHANGED <<interviews, sessions, answers, call, graderCalls, submitted>>

NextAggregate == \E s \in SessionIds, u \in Users : completeAggregated(s, u)

SpecAggregate == InitAggregate /\ [][NextAggregate]_vars

\* ------------------------------------------------------ question generation
\* generateInterview (lines 170-271) and parseQuestions (320-354) on top of the
\* session operations: the catalog starts empty and is filled by generation.
MaxGenerated == 2

\* the ids the interview store hands out, in order
GeneratedIds == <<"i1">>

\* the skills argument
SkillLists == { << >>, <<"Go">> }

\* a question as the generator writes it; "" is a field left out or empty
RawQuestions ==
    { [skill |-> "Go", question |-> "q1", difficulty |-> "advanced", category |-> ""],
      [skill |-> "Go", question |-> "", difficulty |-> "advanced", category |-> "design"] }

\* what the generator answers: no content (line 214), text that is not JSON
\* (218), JSON without a questions array (321-327), or a questions array
GeneratorResponses ==
    { [kind |-> k, questions |-> << >>] : k \in {"none", "syntax", "format"} }
      \cup [kind : {"questions"}, questions : SeqsUpTo(RawQuestions, MaxGenerated)]

GenerationNoSkills == "BadRequest: At least one skill is required"
GenerationUnparsed == "BadRequest: Failed to parse interview questions. Please try again."
GenerationFailed == "BadRequest: Interview generation failed"

\* lines 330-336: a falsy field gets its default
OrDefault(value, default) == IF value = "" THEN default ELSE value

MapQuestion(q) ==
    [skill |-> OrDefault(q.skill, "Unknown"),
     question |-> OrDefault(q.question, ""),
     difficulty |-> OrDefault(q.difficulty, "intermediate"),
     category |-> OrDefault(q.category, "conceptual")]

\* lines 341 and 349
ValidQuestion(q) ==
    q.skill # "" /\ q.question # "" /\ q.difficulty # "" /\ q.category # ""

RECURSIVE FilterValid(_)
FilterValid(questions) ==
    IF Len(questions) = 0 THEN << >>
    ELSE (IF ValidQuestion(Head(questions)) THEN <<Head(questions)>> ELSE << >>)
           \o FilterValid(Tail(questions))

\* lines 329-353: the questions with their defaults, the invalid ones left out
parseQuestions(rawQuestions) ==
    FilterValid([i \in 1..Len(rawQuestions) |-> MapQuestion(rawQuestions[i])])

\* line 240 counting what the generator sent
TotalOfGenerated(rawQuestions, questions) == Len(rawQuestions)

\* line 240: totalQuestions: questions.length
TotalOfParsed(rawQuestions, questions) == Len(questions)

\* lines 233-241
GeneratedRow(userId, rawQuestions) ==
    [userId |-> userId,
     questions |-> parseQuestions(rawQuestions),
     totalQuestions |-> TotalOfParsed(rawQuestions, parseQuestions(rawQuestions))]

\* what a generate call was given and what it returned
GenerateCall(response, result) == [response |-> response] @@ result

generateInterview(userId, skills, response) ==
    /\ Cardinality(DOMAIN interviews) < Len(GeneratedIds)
    /\ IF Len(skills) = 0
       THEN /\ last' = Last("generate", 0, userId, 0, GenerationNoSkills,
                            GenerateCall(response, NoResult))
            /\ UNCHANGED interviews
       ELSE IF response.kind = "syntax"
       THEN /\ last' = Last("generate", 0, userId, 0, GenerationUnparsed,
                            GenerateCall(response, NoResult))
            /\ UNCHANGED interviews
       ELSE IF response.kind \in {"none", "format"}
       THEN /\ last' = Last("generate", 0, userId, 0, GenerationFailed,
                            GenerateCall(response, NoResult))
            /\ UNCHANGED interviews
       ELSE LET id == GeneratedIds[Cardinality(DOMAIN interviews) + 1]
                row == GeneratedRow(userId, response.questions)
            IN /\ interviews' = [i \in (DOMAIN interviews) \cup {id} |->
                                   IF i = id THEN row ELSE interviews[i]]
               /\ last' = Last("generate", 0, userId, 0, OK,
                               GenerateCall(response,
                                  [has |-> TRUE, id |-> id,
                                   questions |-> row.questions,
                                   totalQuestions |-> Len(row.questions)]))
    /\ UNCHANGED <<sessions, answers, call, graderCalls, submitted>>

GenerateInterview ==
    \E u \in Users, skills \in SkillLists, response \in GeneratorResponses :
      Idle /\ generateInterview(u, skills, response)

InitGenerate ==
    /\ interviews = [i \in {} |-> InterviewRow("u1", 0)]
    /\ sessions = << >>
    /\ answers = {}
    /\ call = NoCall
    /\ graderCalls = [s \in SessionIds |-> [ok |-> 0, failed |-> 0]]
    /\ submitted = [s \in SessionIds |-> << >>]
    /\ last = Last("none", 0, "u1", 0, OK, NoResult)

NextGenerate ==
    \/ GenerateInterview
    \/ Start
    \/ CurrentQuestion
    \/ SubmitAnswer
    \/ Advance
    \/ Complete

SpecGenerate == InitGenerate /\ [][NextGenerate]_vars

\* -------------------------------------------------------------- two sessions
\* Two sessions side by side: the state after two start calls, by the same
\* user on the same interview or by two users on two interviews. The handlers
\* run on either session; one completeInterview call runs by steps, and
\* between its awaits the handlers run on the other session.
PairIds == {1, 2}

MaxPairQuestions == 1

InitPair ==
    /\ \E n \in 1..MaxPairQuestions :
         interviews = [i \in InterviewIds |->
                         IF i = "i1" THEN InterviewRow("u1", n)
                                     ELSE InterviewRow("u2", 1)]
    /\ \E now \in Times :
         sessions \in { << NewSession("i1", "u1", now), NewSession("i1", "u1", now) >>,
                        << NewSession("i1", "u1", now), NewSession("i2", "u2", now) >> }
    /\ answers = {}
    /\ call = NoCall
    /\ graderCalls = [s \in PairIds |-> [ok |-> 0, failed |-> 0]]
    /\ submitted = [s \in PairIds |-> << >>]
    /\ last = Last("none", 0, "u1", 0, OK, NoResult)

\* no completeInterview call on this session is between two of its awaits
Free(sessionId) == IF call.active THEN call.sessionId # sessionId ELSE TRUE

PairCurrentQuestion ==
    \E s \in PairIds, u \in Users : Free(s) /\ getCurrentQuestion(s, u)

PairSubmitAnswer ==
    \E s \in PairIds, u \in Users, q \in -1..MaxQuestions :
      Free(s) /\ submitAnswer(s, q, u)

PairAdvance ==
    \E s \in PairIds, u \in Users : Free(s) /\ moveToNextQuestion(s, u)

PairGetAnswers ==
    \E s \in PairIds, u \in Users : Free(s) /\ getSessionAnswers(s, u)

\* the grader's answers here: an error, no evaluation, or one evaluation of
\* question 0
PairGraderResponses ==
    GraderErrors \cup
      [ok : {TRUE},
       evaluations : SeqsUpTo([questionIndex : {0}, score : {6, 12}], 1),
       overall : {[has |-> FALSE, value |-> 0]}]

PairCompleteBegin ==
    \E s \in PairIds, u \in Users : completeBeginWith(s, u, PairGraderResponses)

\* a whole complete on the other session while one is running
PairCompleteMeanwhile ==
    \E s \in PairIds, u \in Users :
      call.active /\ Free(s) /\ completeInterviewWith(s, u, PairGraderResponses)

NextPair ==
    \/ PairCurrentQuestion
    \/ PairSubmitAnswer
    \/ PairAdvance
    \/ PairGetAnswers
    \/ PairCompleteBegin
    \/ PairCompleteMeanwhile
    \/ completeStoreEvaluation
    \/ completeSaveSession

SpecPair == InitPair /\ [][NextPair]_vars

\* ------------------------------------------------- submitAnswer by its awaits
\* Two submitAnswer calls on one session, each cut at the await between the
\* lookup of line 464 and the save of line 472 or 487. The Answer entity has an
\* index on sessionId and no unique constraint on (sessionId, questionIndex)
\* (answer.entity.ts lines 20-34), so the store accepts every insert. Here call
\* holds, for each of the two callers, where its call stands.
Callers == {1, 2}

NotCalled == [pc |-> "idle"]

InitRace ==
    /\ \E n \in 1..MaxQuestions :
         interviews = [i \in InterviewIds |->
                         IF i = "i1" THEN InterviewRow("u1", n)
                                     ELSE InterviewRow("u2", 1)]
    /\ \E now \in Times : sessions = << NewSession("i1", "u1", now) >>
    /\ answers = {}
    /\ call = [c \in Callers |-> NotCalled]
    /\ graderCalls = [s \in SessionIds |-> [ok |-> 0, failed |-> 0]]
    /\ submitted = [s \in SessionIds |-> << >>]
    /\ last = Last("none", 0, "u1", 0, OK, NoResult)

\* lines 443-466: the checks and the lookup; found is what findOne returned
submitAnswerLookup(c, sessionId, questionIndex, transcription, userId) ==
    /\ call[c].pc = "idle"
    /\ IF ~SessionOwned(sessionId, userId)
       THEN /\ last' = Last("submitAnswer", sessionId, userId, questionIndex,
                            OwnershipError(sessionId, userId), NoResult)
            /\ call' = [call EXCEPT ![c] = [pc |-> "done"]]
       ELSE IF SubmitRejected(sessions[sessionId])
       THEN /\ last' = Last("submitAnswer", sessionId, userId, questionIndex,
                            AlreadyCompleted, NoResult)
            /\ call' = [call EXCEPT ![c] = [pc |-> "done"]]
       ELSE IF InvalidQuestionIndex(questionIndex,
                                    interviews[sessions[sessionId].interviewId].questions)
       THEN /\ last' = Last("submitAnswer", sessionId, userId, questionIndex,
                            InvalidIndex, NoResult)
            /\ call' = [call EXCEPT ![c] = [pc |-> "done"]]
       ELSE /\ \E found \in (IF FindAnswers(sessionId, questionIndex) = {}
                               THEN {[has |-> FALSE]}
                               ELSE {[has |-> TRUE, row |-> a] :
                                       a \in FindAnswers(sessionId, questionIndex)}) :
                 call' = [call EXCEPT ![c] =
                            [pc |-> "looked", sessionId |-> sessionId, userId |-> userId,
                             questionIndex |-> questionIndex,
                             transcription |-> transcription,
                             existingAnswer |-> found]]
            /\ UNCHANGED last
    /\ UNCHANGED <<interviews, sessions, answers, graderCalls, submitted>>

\* lines 468-491: save the answer found, else create and save a new one
submitAnswerSave(c) ==
    /\ call[c].pc = "looked"
    /\ \E now \in Times :
         IF call[c].existingAnswer.has
         THEN answers' = SaveAnswer(answers,
                            UpdateAnswer(call[c].existingAnswer.row,
                                         call[c].transcription, now))
         ELSE answers' = answers \cup
                {NewAnswer(call[c].sessionId, call[c].questionIndex,
                           QuestionTextAt(sessions[call[c].sessionId].interviewId,
                                          call[c].questionIndex),
                           call[c].transcription, now)}
    /\ submitted' = [submitted EXCEPT ![call[c].sessionId] =
          [i \in (DOMAIN @) \cup {call[c].questionIndex} |->
             IF i = call[c].questionIndex THEN call[c].transcription ELSE @[i]]]
    /\ last' = Last("submitAnswer", call[c].sessionId, call[c].userId,
                    call[c].questionIndex, OK,
                    [has |-> TRUE, existing |-> call[c].existingAnswer.has])
    /\ call' = [call EXCEPT ![c] = [pc |-> "done"]]
    /\ UNCHANGED <<interviews, sessions, graderCalls>>

SubmitAnswerLookup ==
    \E c \in Callers, s \in CallerSessionIds, u \in Users, q \in -1..MaxQuestions,
       transcription \in Transcriptions :
      submitAnswerLookup(c, s, q, transcription, u)

SubmitAnswerSave == \E c \in Callers : submitAnswerSave(c)

\* a caller whose call has returned calls again
SubmitAnswerReturn ==
    \E c \in Callers :
      /\ call[c].pc = "done"
      /\ call' = [call EXCEPT ![c] = NotCalled]
      /\ UNCHANGED <<interviews, sessions, answers, graderCalls, submitted, last>>

NextRace ==
    \/ SubmitAnswerLookup
    \/ SubmitAnswerSave
    \/ SubmitAnswerReturn

SpecRace == InitRace /\ [][NextRace]_vars

\* ---------------------------------------------- calls that overlap on a session
\* The callers of the section above, each running submitAnswer,
\* moveToNextQuestion or completeInterview on the one session, every call cut
\* at awaits of its handler. A handler holds the session entity it read at
\* its first line, and sessionRepository.save(session) writes that entity's
\* columns back; the InterviewSession entity has no version column
\* (interview-session.entity.ts) and no handler opens a transaction or takes a
\* lock.
\* lines 498-510: the session read and the status check
moveToNextQuestionLookup(c, sessionId, userId) ==
    /\ call[c].pc = "idle"
    /\ IF ~SessionOwned(sessionId, userId)
       THEN /\ last' = Last("advance", sessionId, userId, 0,
                            OwnershipError(sessionId, userId), NoResult)
            /\ call' = [call EXCEPT ![c] = [pc |-> "done"]]
       ELSE IF AdvanceRejected(sessions[sessionId])
       THEN /\ last' = Last("advance", sessionId, userId, 0, AlreadyCompleted, NoResult)
            /\ call' = [call EXCEPT ![c] = [pc |-> "done"]]
       ELSE /\ sessions[sessionId].currentQuestionIndex
                 < Len(interviews[sessions[sessionId].interviewId].questions) + MaxOverrun
            /\ call' = [call EXCEPT ![c] =
                          [pc |-> "advancing", sessionId |-> sessionId,
                           userId |-> userId, session |-> sessions[sessionId]]]
            /\ UNCHANGED last
    /\ UNCHANGED <<interviews, sessions, answers, graderCalls, submitted>>

\* lines 512-522: the entity read at line 498 gets its cursor moved and is saved
moveToNextQuestionSave(c) ==
    /\ call[c].pc = "advancing"
    /\ sessions' = [sessions EXCEPT ![call[c].sessionId] =
                      [call[c].session EXCEPT !.currentQuestionIndex = NextIndex(@)]]
    /\ last' = Last("advance", call[c].sessionId, call[c].userId, 0, OK,
                    QuestionAt(call[c].session.interviewId,
                               NextIndex(call[c].session.currentQuestionIndex)))
    /\ call' = [call EXCEPT ![c] = [pc |-> "done"]]
    /\ UNCHANGED <<interviews, answers, graderCalls, submitted>>

\* lines 541-604: the session read, the short-circuit, the answers read and the
\* grader call
completeInterviewLookup(c, sessionId, userId, responses) ==
    /\ call[c].pc = "idle"
    /\ IF ~SessionOwned(sessionId, userId)
       THEN /\ last' = Last("complete", sessionId, userId, 0,
                            OwnershipError(sessionId, userId), NoResult)
            /\ call' = [call EXCEPT ![c] = [pc |-> "done"]]
            /\ UNCHANGED graderCalls
       ELSE IF AlreadyEvaluated(sessions[sessionId])
       THEN /\ last' = Last("complete", sessionId, userId, 0, OK,
                 CompleteResult("replay",
                    StoredEvaluations(FindSessionAnswers(sessionId)),
                    ReplayOverallScore(StoredEvaluations(FindSessionAnswers(sessionId)))))
            /\ call' = [call EXCEPT ![c] = [pc |-> "done"]]
            /\ UNCHANGED graderCalls
       ELSE IF NoAnswersFound(FindSessionAnswers(sessionId))
       THEN /\ last' = Last("complete", sessionId, userId, 0, NoAnswers, NoResult)
            /\ call' = [call EXCEPT ![c] = [pc |-> "done"]]
            /\ UNCHANGED graderCalls
       ELSE \E response \in responses :
              LET loaded == FindSessionAnswers(sessionId)
                  evaluationResult ==
                      evaluateAnswers(interviews[sessions[sessionId].interviewId].questions,
                                      loaded, response)
              IN IF ~evaluationResult.ok
                 THEN /\ graderCalls[sessionId].failed < MaxGraderFailures
                      /\ graderCalls' = [graderCalls EXCEPT ![sessionId].failed =
                                           IF evaluationResult.invoked THEN @ + 1 ELSE @]
                      /\ last' = Last("complete", sessionId, userId, 0,
                                      EvaluationFailed, NoResult)
                      /\ call' = [call EXCEPT ![c] = [pc |-> "done"]]
                 ELSE /\ graderCalls' = [graderCalls EXCEPT ![sessionId].ok = @ + 1]
                      /\ call' = [call EXCEPT ![c] =
                                    [pc |-> "storing", sessionId |-> sessionId,
                                     userId |-> userId, session |-> sessions[sessionId],
                                     loaded |-> loaded, result |-> evaluationResult,
                                     i |-> 1]]
                      /\ UNCHANGED last
    /\ UNCHANGED <<interviews, sessions, answers, submitted>>

\* one turn of the loop of lines 607-620
completeInterviewStore(c) ==
    /\ call[c].pc = "storing"
    /\ call[c].i <= Len(call[c].result.evaluations)
    /\ LET st == StoreEvaluation([store |-> answers, loaded |-> call[c].loaded],
                                 call[c].result.evaluations[call[c].i])
       IN /\ answers' = st.store
          /\ call' = [call EXCEPT ![c].loaded = st.loaded, ![c].i = @ + 1]
    /\ UNCHANGED <<interviews, sessions, graderCalls, submitted, last>>

\* lines 622-634: the entity read at line 541 is marked and saved
completeInterviewSave(c) ==
    /\ call[c].pc = "storing"
    /\ call[c].i > Len(call[c].result.evaluations)
    /\ \E now \in Times :
         sessions' = [sessions EXCEPT ![call[c].sessionId] =
                        CompleteSession(call[c].session, now)]
    /\ last' = Last("complete", call[c].sessionId, call[c].userId, 0, OK,
                    CompleteResult("graded", call[c].result.evaluations,
                                   call[c].result.overallScore))
    /\ call' = [call EXCEPT ![c] = [pc |-> "done"]]
    /\ UNCHANGED <<interviews, answers, graderCalls, submitted>>

AdvanceLookup ==
    \E c \in Callers, s \in CallerSessionIds, u \in Users :
      moveToNextQuestionLookup(c, s, u)

AdvanceSave == \E c \in Callers : moveToNextQuestionSave(c)

CompleteLookup ==
    \E c \in Callers, s \in CallerSessionIds, u \in Users :
      completeInterviewLookup(c, s, u, PairGraderResponses)

CompleteStore == \E c \in Callers : completeInterviewStore(c)

CompleteSave == \E c \in Callers : completeInterviewSave(c)

\* the answers submitted before the first of the overlapping calls begins
SubmitAnswerBefore ==
    \E s \in CallerSessionIds, u \in Users, q \in -1..MaxQuestions :
      /\ \A c \in Callers : call[c].pc = "idle"
      /\ submitAnswer(s, q, u)

\* each caller makes one call
NextOverlap ==
    \/ SubmitAnswerBefore
    \/ SubmitAnswerLookup
    \/ SubmitAnswerSave
    \/ AdvanceLookup
    \/ AdvanceSave
    \/ CompleteLookup
    \/ CompleteStore
    \/ CompleteSave

SpecOverlap == InitRace /\ [][NextOverlap]_vars

\* ------------------------------------------------------- complete retried
\* submitAnswer and completeInterview one at a time on a session in progress,
\* with an owner who calls completeInterview again after every failure and a
\* grader that does not fail for ever: completeInterview has no retry of its
\* own (line 601), the retry is the owner's next call.
\* a complete by anybody, the grader failing, or answering with no evaluation
\* or with an evaluation of question 0
RetryComplete ==
    \E s \in CallerSessionIds, u \in Users :
      Idle /\ completeInterviewWith(s, u, PairGraderResponses)

\* a complete by the session's owner
CompleteByOwner(s) ==
    /\ Idle
    /\ s \in 1..Len(sessions)
    /\ completeInterviewWith(s, sessions[s].userId, PairGraderResponses)

\* a complete by the session's owner that the grader answers
CompleteGraded(s) ==
    /\ Idle
    /\ s \in 1..Len(sessions)
    /\ completeInterviewWith(s, sessions[s].userId, PairGraderResponses \ GraderErrors)

\* the state after a start call
InitRetry ==
    /\ \E n \in 1..MaxQuestions :
         interviews = [i \in InterviewIds |->
                         IF i = "i1" THEN InterviewRow("u1", n)
                                     ELSE InterviewRow("u2", 1)]
    /\ \E now \in Times : sessions = << NewSession("i1", "u1", now) >>
    /\ answers = {}
    /\ call = NoCall
    /\ graderCalls = [s \in SessionIds |-> [ok |-> 0, failed |-> 0]]
    /\ submitted = [s \in SessionIds |-> << >>]
    /\ last = Last("none", 0, "u1", 0, OK, NoResult)

NextRetry ==
    \/ SubmitAnswer
    \/ RetryComplete

SpecRetry ==
    /\ InitRetry
    /\ [][NextRetry]_vars
    /\ \A s \in SessionIds : WF_vars(CompleteByOwner(s)) /\ SF_vars(CompleteGraded(s))

\* ------------------------------------------------ the grader's overall score
\* submitAnswer and completeInterview on a session in progress, the grader
\* answering with integer scores and with an overallScore of its own anywhere
\* in a range around 0..10, or with none.
OverallValues == -1..11

SuppliedOveralls ==
    { [has |-> FALSE, value |-> 0] } \cup [has : {TRUE}, value : OverallValues]

ScoredResponses ==
    GraderErrors \cup
      [ok : {TRUE},
       evaluations : SeqsUpTo([questionIndex : 0..1, score : RawScores], MaxEvals),
       overall : SuppliedOveralls]

CompleteScored ==
    \E s \in CallerSessionIds, u \in Users :
      Idle /\ completeInterviewWith(s, u, ScoredResponses)

NextScored ==
    \/ SubmitAnswer
    \/ CompleteScored

SpecScored == InitRetry /\ [][NextScored]_vars

\* ===================================================================== claims
SessionOps ==
    {"currentQuestion", "submitAnswer", "advance", "complete",
     "getSessionById", "getSessionAnswers"}

TotalQuestions(s) == interviews[sessions[s].interviewId].totalQuestions

GradedAnswers(s) == {a \in answers : a.sessionId = s /\ a.evaluation.graded}

\* the last call named a session that exists and belongs to the caller / to
\* somebody else
LastByOwner ==
    /\ last.sessionId \in 1..Len(sessions)
    /\ sessions[last.sessionId].userId = last.userId

LastByStranger ==
    /\ last.sessionId \in 1..Len(sessions)
    /\ sessions[last.sessionId].userId # last.userId

\* C1: every session's cursor stays within 0..totalQuestions of its interview,
\* also when advance is called on a session whose cursor is already at the end.
C1_CursorWithinTotal ==
    \A s \in 1..Len(sessions) :
      /\ 0 <= sessions[s].currentQuestionIndex
      /\ sessions[s].currentQuestionIndex <= TotalQuestions(s)

\* C2: a session has exactly one Answer row for each distinct question index
\* accepted by submitAnswer, and that row holds the transcription submitted last.
C2_OneAnswerPerIndex ==
    \A s \in SessionIds :
      /\ Cardinality(AnswersOfSession(s)) = Cardinality(DOMAIN submitted[s])
      /\ \A i \in DOMAIN submitted[s] :
           \E a \in answers :
             /\ a.sessionId = s
             /\ a.questionIndex = i
             /\ a.transcription = submitted[s][i]

\* an answer was submitted again with another transcription, and there is still
\* one row
C2_Resubmitted ==
    /\ last.op = "submitAnswer"
    /\ last.outcome = OK
    /\ last.result.existing
    /\ \E a \in answers :
         /\ a.sessionId = last.sessionId
         /\ a.questionIndex = last.questionIndex
         /\ a.transcription = "b"
    /\ Cardinality(AnswersOfSession(last.sessionId)) = 2

\* C3: two complete calls in a row on a session return the same overallScore,
\* and the second does not call the grader. (skillBreakdown, categoryBreakdown
\* and performanceMetrics are no part of what completeInterview returns or
\* writes: lines 631-634 and 564-570.)
C3_CompleteTwiceSameResult ==
    [][ ( /\ last.op = "complete"
          /\ last.outcome = OK
          /\ last'.op = "complete"
          /\ last'.outcome = OK
          /\ last'.sessionId = last.sessionId
          /\ last'.userId = last.userId )
        => ( /\ last'.result.overallScore = last.result.overallScore
             /\ graderCalls' = graderCalls ) ]_vars

\* C4: a complete whose grader call fails ends with the grading error and
\* writes nothing: the session is still IN_PROGRESS with completedAt null, no
\* answer is changed or graded; and every complete by the owner of a session
\* that is not completed and has answers calls the grader, after a failure too.
C4_GraderFailureRetriable ==
    [][ /\ ( (last'.op = "complete" /\ last'.outcome = EvaluationFailed)
             => ( /\ sessions' = sessions
                  /\ answers' = answers
                  /\ sessions'[last'.sessionId].status = IN_PROGRESS
                  /\ sessions'[last'.sessionId].completedAt = 0
                  /\ GradedAnswers(last'.sessionId) = {}
                  /\ AnswersOfSession(last'.sessionId) # {}
                  /\ graderCalls'[last'.sessionId].failed
                       = graderCalls[last'.sessionId].failed + 1 ) )
        /\ ( ( /\ last'.op = "complete"
               /\ last'.sessionId \in 1..Len(sessions)
               /\ sessions[last'.sessionId].userId = last'.userId
               /\ sessions[last'.sessionId].status # COMPLETED
               /\ AnswersOfSession(last'.sessionId) # {} )
             => ( /\ last'.outcome \in {OK, EvaluationFailed}
                  /\ graderCalls' # graderCalls ) ) ]_vars

\* a complete failed in the grader and a later one succeeded
C4_RetrySucceeded ==
    \E s \in 1..Len(sessions) :
      /\ graderCalls[s].failed >= 1
      /\ graderCalls[s].ok = 1
      /\ sessions[s].status = COMPLETED
      /\ sessions[s].completedAt # 0
      /\ GradedAnswers(s) # {}

\* C5: in every state, also between the writes of a running complete and after
\* one of them failed, a session is COMPLETED or none of its answers carries an
\* evaluation.
C5_AllOrNothing ==
    \A s \in 1..Len(sessions) :
      \/ sessions[s].status = COMPLETED
      \/ sessions[s].status = IN_PROGRESS /\ GradedAnswers(s) = {}

\* C6: no step changes the status, cursor or completedAt of a COMPLETED
\* session, and the only status change is IN_PROGRESS to COMPLETED.
C6_CompletedIsTerminal ==
    [][ \A s \in 1..Len(sessions) :
          /\ sessions[s].status = COMPLETED
               => /\ sessions'[s].status = COMPLETED
                  /\ sessions'[s].currentQuestionIndex = sessions[s].currentQuestionIndex
                  /\ sessions'[s].completedAt = sessions[s].completedAt
          /\ sessions'[s].status # sessions[s].status
               => /\ sessions[s].status = IN_PROGRESS
                  /\ sessions'[s].status = COMPLETED ]_vars

\* an advance was tried on a COMPLETED session
C6_AdvanceAfterCompleted ==
    /\ last.op = "advance"
    /\ last.outcome = AlreadyCompleted
    /\ LastByOwner
    /\ sessions[last.sessionId].status = COMPLETED

\* C7: a session operation called with another user's id than the session's
\* owner ends NotFound, whatever the status and the arguments, and changes no
\* session and no answer.
C7_StrangerGetsNotFound ==
    [][ (last'.op \in SessionOps /\ LastByStranger')
        => ( /\ last'.outcome = SessionNotFound
             /\ sessions' = sessions
             /\ answers' = answers
             /\ graderCalls' = graderCalls ) ]_vars

\* a stranger submitted an out-of-range index to a COMPLETED session
C7_StrangerOnCompleted ==
    /\ last.op = "submitAnswer"
    /\ LastByStranger
    /\ sessions[last.sessionId].status = COMPLETED
    /\ last.questionIndex >= TotalQuestions(last.sessionId)
    /\ last.outcome = SessionNotFound

\* C8: complete by the owner on a session that is not completed and has no
\* answer ends "No answers found", calls no grader and leaves the session as
\* it was.
C8_CompleteWithoutAnswers ==
    [][ ( /\ last'.op = "complete"
          /\ last'.sessionId \in 1..Len(sessions)
          /\ sessions[last'.sessionId].userId = last'.userId
          /\ sessions[last'.sessionId].status # COMPLETED
          /\ AnswersOfSession(last'.sessionId) = {} )
        => ( /\ last'.outcome = NoAnswers
             /\ graderCalls' = graderCalls
             /\ sessions' = sessions
             /\ answers' = answers ) ]_vars

\* complete was refused for want of answers, on a session whose cursor has moved
C8_RefusedNoAnswers ==
    /\ last.op = "complete"
    /\ last.outcome = NoAnswers
    /\ LastByOwner
    /\ sessions[last.sessionId].status = IN_PROGRESS
    /\ sessions[last.sessionId].currentQuestionIndex > 0
    /\ graderCalls[last.sessionId] = [ok |-> 0, failed |-> 0]

\* C9: submitAnswer by the owner ends "already completed" on a COMPLETED
\* session, "Invalid question index" on a session not completed when the index
\* is outside [0, totalQuestions), changing no answer in both cases; in every
\* other case it succeeds and the session has an answer for the index.
C9_SubmitOutcomes ==
    [][ ( /\ last'.op = "submitAnswer"
          /\ last'.sessionId \in 1..Len(sessions)
          /\ sessions[last'.sessionId].userId = last'.userId )
        => IF sessions[last'.sessionId].status = COMPLETED
           THEN last'.outcome = AlreadyCompleted /\ answers' = answers
           ELSE IF last'.questionIndex < 0
                   \/ last'.questionIndex >= TotalQuestions(last'.sessionId)
           THEN last'.outcome = InvalidIndex /\ answers' = answers
           ELSE /\ last'.outcome = OK
                /\ \E a \in answers' :
                     /\ a.sessionId = last'.sessionId
                     /\ a.questionIndex = last'.questionIndex ]_vars

\* the index one past the last question was refused on a session in progress
C9_IndexRefused ==
    /\ last.op = "submitAnswer"
    /\ last.outcome = InvalidIndex
    /\ LastByOwner
    /\ sessions[last.sessionId].status = IN_PROGRESS
    /\ last.questionIndex = TotalQuestions(last.sessionId)
    /\ AnswersOfSession(last.sessionId) # {}

\* C10: no submitAnswer call, accepted or refused, changes a session row.
C10_SubmitKeepsSession ==
    [][ last'.op = "submitAnswer" => sessions' = sessions ]_vars

\* the question under the cursor was answered again and the cursor stayed
C10_ReansweredInPlace ==
    /\ last.op = "submitAnswer"
    /\ last.outcome = OK
    /\ last.result.existing
    /\ sessions[last.sessionId].status = IN_PROGRESS
    /\ last.questionIndex = sessions[last.sessionId].currentQuestionIndex

\* C11: advance by the owner on a session that is not COMPLETED adds exactly 1
\* to the stored cursor, touches no other session field, and returns the
\* question at the new index, null exactly when the new index is at or past
\* totalQuestions; on a COMPLETED session it ends "already completed" and
\* leaves the session as it was. It never changes an answer.
C11_AdvanceByOne ==
    [][ ( /\ last'.op = "advance"
          /\ last'.sessionId \in 1..Len(sessions)
          /\ sessions[last'.sessionId].userId = last'.userId )
        => /\ answers' = answers
           /\ IF sessions[last'.sessionId].status = COMPLETED
              THEN last'.outcome = AlreadyCompleted /\ sessions' = sessions
              ELSE /\ last'.outcome = OK
                   /\ sessions' = [sessions EXCEPT ![last'.sessionId].currentQuestionIndex
                                     = sessions[last'.sessionId].currentQuestionIndex + 1]
                   /\ last'.result.has
                        <=> sessions[last'.sessionId].currentQuestionIndex + 1
                              < TotalQuestions(last'.sessionId)
                   /\ last'.result.has
                        => last'.result.question
                             = interviews[sessions[last'.sessionId].interviewId]
                                 .questions[sessions[last'.sessionId].currentQuestionIndex + 2]
      ]_vars

\* an advance moved the cursor onto totalQuestions and returned null, with an
\* answer on record that stayed as it was
C11_AdvancedToTheEnd ==
    /\ last.op = "advance"
    /\ last.outcome = OK
    /\ ~last.result.has
    /\ LastByOwner
    /\ sessions[last.sessionId].currentQuestionIndex = TotalQuestions(last.sessionId)
    /\ TotalQuestions(last.sessionId) = 2
    /\ AnswersOfSession(last.sessionId) # {}

\* C12: start ends "Interview not found" when the interview is missing or
\* belongs to somebody else, "no questions" when it has none, and creates no
\* session then; otherwise it appends exactly one session for that interview
\* and caller with cursor 0, IN_PROGRESS, startedAt set, completedAt null and
\* no answers, and returns it with question 0.
C12_StartOutcomes ==
    [][ last'.op = "start"
        => /\ answers' = answers
           /\ IF \/ last'.result.interviewId \notin DOMAIN interviews
                 \/ interviews[last'.result.interviewId].userId # last'.userId
              THEN last'.outcome = InterviewNotFound /\ sessions' = sessions
              ELSE IF interviews[last'.result.interviewId].totalQuestions = 0
              THEN last'.outcome = NoQuestions /\ sessions' = sessions
              ELSE /\ last'.outcome = OK
                   /\ Len(sessions') = Len(sessions) + 1
                   /\ SubSeq(sessions', 1, Len(sessions)) = sessions
                   /\ last'.sessionId = Len(sessions')
                   /\ sessions'[last'.sessionId].interviewId = last'.result.interviewId
                   /\ sessions'[last'.sessionId].userId = last'.userId
                   /\ sessions'[last'.sessionId].currentQuestionIndex = 0
                   /\ sessions'[last'.sessionId].status = IN_PROGRESS
                   /\ sessions'[last'.sessionId].startedAt # 0
                   /\ sessions'[last'.sessionId].completedAt = 0
                   /\ AnswersOfSession(last'.sessionId) = {}
                   /\ last'.result.has
                   /\ last'.result.question
                        = interviews[last'.result.interviewId].questions[1] ]_vars

\* a session was just started on an interview with two questions
C12_Started ==
    /\ last.op = "start"
    /\ last.outcome = OK
    /\ Len(sessions) = 1
    /\ last.sessionId = 1
    /\ sessions[1].status = IN_PROGRESS
    /\ TotalQuestions(1) = 2
    /\ last.result.question.question = "q1"

\* C13: currentQuestion by the owner succeeds in every status, returns the
\* question under the cursor when the cursor is in [0, totalQuestions) and
\* null otherwise, and changes nothing stored.
C13_CurrentQuestion ==
    [][ ( /\ last'.op = "currentQuestion"
          /\ last'.sessionId \in 1..Len(sessions)
          /\ sessions[last'.sessionId].userId = last'.userId )
        => /\ last'.outcome = OK
           /\ sessions' = sessions
           /\ answers' = answers
           /\ graderCalls' = graderCalls
           /\ last'.result.has
                <=> /\ 0 <= sessions[last'.sessionId].currentQuestionIndex
                    /\ sessions[last'.sessionId].currentQuestionIndex
                         < TotalQuestions(last'.sessionId)
           /\ last'.result.has
                => last'.result.question
                     = interviews[sessions[last'.sessionId].interviewId]
                         .questions[sessions[last'.sessionId].currentQuestionIndex + 1]
      ]_vars

\* the second question was read from a COMPLETED session
C13_ReadOnCompleted ==
    /\ last.op = "currentQuestion"
    /\ last.outcome = OK
    /\ LastByOwner
    /\ sessions[last.sessionId].status = COMPLETED
    /\ sessions[last.sessionId].currentQuestionIndex = 1
    /\ last.result.has
    /\ last.result.question.question = "q2"

C15_CompletedIsScored ==
    \A s \in 1..Len(sessions) :
      sessions[s].status = COMPLETED
        => /\ sessions[s].completedAt # 0
           /\ sessions[s].overallScore.has
           /\ sessions[s].summary.has
           /\ sessions[s].recommendations.has
           /\ sessions[s].skillBreakdown.has
           /\ sessions[s].categoryBreakdown.has
           /\ sessions[s].performanceMetrics.has

\* the row of answers' that has the id of row a
SameRow(a, b) ==
    /\ b.sessionId = a.sessionId
    /\ b.questionIndex = a.questionIndex
    /\ b.copy = a.copy

\* C16: an answer is created with a null evaluation, an evaluation appears
\* only through a complete, and an evaluation once written is never written
\* over: not by a later entry of the same grader answer for the same
\* questionIndex, and not by any operation after the session is COMPLETED.
C16_EvaluationWrittenOnce ==
    [][ /\ \A b \in answers' :
             (~ \E a \in answers : SameRow(a, b)) => ~b.evaluation.graded
        /\ (\E b \in answers' : b.evaluation.graded /\ b \notin answers)
             => last'.op = "complete"
        /\ \A a \in answers :
             a.evaluation.graded
               => \E b \in answers' : SameRow(a, b) /\ b.evaluation = a.evaluation
      ]_vars

\* what the running complete got from the grader and made of it: entry by
\* entry the same questionIndex, and the raw score brought into [0, 10]
GradedWithinRange ==
    call.active
      => /\ Len(call.result.evaluations) = Len(call.responseContent.evaluations)
         /\ \A i \in 1..Len(call.result.evaluations) :
              LET raw == call.responseContent.evaluations[i].score
                  score == call.result.evaluations[i].score
              IN /\ call.result.evaluations[i].questionIndex
                      = call.responseContent.evaluations[i].questionIndex
                 /\ score = IF raw < 0 THEN 0 ELSE IF raw > 10 THEN 10 ELSE raw
                 /\ 0 <= score /\ score <= 10

StoredWithinRange ==
    /\ \A a \in answers :
         a.evaluation.graded => 0 <= a.evaluation.score /\ a.evaluation.score <= 10
    /\ (last.op = "complete" /\ last.outcome = OK)
         => \A i \in 1..Len(last.result.evaluations) :
              /\ 0 <= last.result.evaluations[i].score
              /\ last.result.evaluations[i].score <= 10

\* C17: every score a grading returns or stores on an answer is the raw
\* grader score brought into [0, 10]: 0 for a raw score below 0, 10 for one
\* above 10, the raw score itself otherwise.
C17_ScoresClamped ==
    [][ /\ GradedWithinRange'
        /\ StoredWithinRange'
        /\ (call.active /\ call'.active /\ call'.i = call.i + 1)
             => \A b \in answers' :
                  b \notin answers
                    => LET raw == call.responseContent.evaluations[call.i]
                       IN /\ b.questionIndex = raw.questionIndex
                          /\ b.evaluation.graded
                          /\ b.evaluation.score
                               = IF raw.score < 0 THEN 0
                                 ELSE IF raw.score > 10 THEN 10 ELSE raw.score ]_vars

\* a grader answer with raw scores 12 and -3 was stored as 10 and 0
C17_ClampedBothWays ==
    /\ call.active
    /\ call.i = 3
    /\ call.responseContent.evaluations[1] = [questionIndex |-> 0, score |-> 12]
    /\ call.responseContent.evaluations[2] = [questionIndex |-> 1, score |-> -3]
    /\ \E a \in answers : a.questionIndex = 0 /\ a.evaluation = Evaluation(10)
    /\ \E a \in answers : a.questionIndex = 1 /\ a.evaluation = Evaluation(0)

\* C18: the overallScore of a grading is the grader's own overall score when
\* the grader gave one, 0 included; else 0 when the grader returned no
\* evaluation; else the mean of the clamped scores.
C18_OverallScoreRule ==
    call.active
      => call.result.overallScore
           = IF call.responseContent.overall.has
             THEN <<call.responseContent.overall.value, 1>>
             ELSE IF Len(call.result.evaluations) = 0
             THEN <<0, 1>>
             ELSE MeanOf(ScoresOf(call.result.evaluations))

\* the scores the aggregation of the last complete was computed from
LastScores == PairScores(ScoredPairs(last.sessionId))

\* v stands at place r of the scores sorted ascending
AtPlace(scores, v, r) ==
    /\ \E i \in 1..Len(scores) : scores[i] = v
    /\ Cardinality({i \in 1..Len(scores) : scores[i] < v}) < r
    /\ r <= Cardinality({i \in 1..Len(scores) : scores[i] <= v})

LastPairs == ScoredPairs(last.sessionId)

\* place of the first evaluated question with the given skill
FirstWithSkill(pairs, skill) ==
    CHOOSE k \in 1..Len(pairs) :
      /\ pairs[k].question.skill = skill
      /\ \A j \in 1..(k - 1) : pairs[j].question.skill # skill

C21_GeneratedHasQuestions ==
    [][ last'.op = "generate"
        => IF last'.outcome = OK
           THEN /\ Cardinality(DOMAIN interviews') = Cardinality(DOMAIN interviews) + 1
                /\ \A id \in (DOMAIN interviews') \ (DOMAIN interviews) :
                     /\ Len(interviews'[id].questions) >= 1
                     /\ \A k \in 1..Len(interviews'[id].questions) :
                          LET q == interviews'[id].questions[k]
                          IN /\ q.skill # ""
                             /\ q.question # ""
                             /\ q.difficulty # ""
                             /\ q.category # ""
           ELSE interviews' = interviews ]_vars

\* a step is a write of the running complete / a handler called on session s
WriteOfRunning == call.active /\ call' # call

HandlerOn(s) == ~WriteOfRunning /\ last'.sessionId = s

\* the session a step operated on
StepSession == IF WriteOfRunning THEN call.sessionId ELSE last'.sessionId

\* C22: a step that operates on session s (a handler called on s, or a write
\* of a complete running on s, while handlers run on the other session between
\* its awaits) leaves the row and the answers of every other session as they
\* were; and what it returns is told by s alone: submitAnswer updates exactly
\* when s itself has an answer for the index, the answers listed and the
\* answers loaded for grading are those of s, complete finds "no answers"
\* exactly when s has none, and a replay returns the evaluations of s.
C22_SessionsIndependent ==
    [][ \A s \in PairIds :
          /\ s = StepSession
               => \A t \in PairIds \ {s} :
                    /\ sessions'[t] = sessions[t]
                    /\ AnswersOfSession(t)' = AnswersOfSession(t)
          /\ (HandlerOn(s) /\ last'.userId = sessions[s].userId)
               => /\ last'.op = "submitAnswer" /\ last'.outcome = OK
                       => /\ last'.result.existing
                               <=> \E a \in AnswersOfSession(s) :
                                     a.questionIndex = last'.questionIndex
                          /\ Cardinality(AnswersOfSession(s)')
                               = Cardinality(AnswersOfSession(s))
                                   + (IF last'.result.existing THEN 0 ELSE 1)
                  /\ last'.op = "getSessionAnswers"
                       => {last'.result.answers[i] : i \in 1..Len(last'.result.answers)}
                            = AnswersOfSession(s)
                  /\ last'.op = "currentQuestion"
                       => (last'.result.has
                             <=> sessions[s].currentQuestionIndex < TotalQuestions(s))
                  /\ last'.op = "complete"
                       => /\ last'.outcome = NoAnswers
                               <=> /\ sessions[s].status # COMPLETED
                                   /\ AnswersOfSession(s) = {}
                          /\ last'.outcome = Pending
                               => {call'.loaded[i] : i \in 1..Len(call'.loaded)}
                                    = AnswersOfSession(s)
                          /\ (last'.outcome = OK /\ last'.result.path = "replay")
                               => {last'.result.evaluations[i] :
                                     i \in 1..Len(last'.result.evaluations)}
                                    = {[questionIndex |-> a.questionIndex,
                                        score |-> a.evaluation.score] :
                                         a \in GradedAnswers(s)} ]_vars

\* while a complete on session 1 is between its writes, with one evaluation
\* stored, an answer of session 2 on the same interview and question was
\* submitted again; session 2 carries no evaluation
C22_SubmittedMeanwhile ==
    /\ call.active
    /\ call.sessionId = 1
    /\ call.i = 2
    /\ Len(sessions) = 2
    /\ sessions[1].interviewId = sessions[2].interviewId
    /\ last.op = "submitAnswer"
    /\ last.sessionId = 2
    /\ last.outcome = OK
    /\ last.result.existing
    /\ GradedAnswers(1) # {}
    /\ GradedAnswers(2) = {}
    /\ AnswersOfSession(2) # {}

\* C23: a session operation called with a session id that names no session,
\* or a session of another user (in any status, with any answers), ends with
\* the one NotFound error, returns nothing and changes nothing stored, so the
\* two cases look the same to the caller.
C23_NoExistenceLeak ==
    [][ ( /\ last'.op \in SessionOps
          /\ ~ ( /\ last'.sessionId \in 1..Len(sessions)
                 /\ sessions[last'.sessionId].userId = last'.userId ) )
        => ( /\ last'.outcome = SessionNotFound
             /\ last'.result = NoResult
             /\ sessions' = sessions
             /\ answers' = answers
             /\ graderCalls' = graderCalls
             /\ interviews' = interviews ) ]_vars

\* complete was called by a stranger on a COMPLETED session with a graded
\* answer and ended as it does for an id that names no session
C23_StrangerSeesNothing ==
    /\ last.op = "complete"
    /\ LastByStranger
    /\ sessions[last.sessionId].status = COMPLETED
    /\ GradedAnswers(last.sessionId) # {}
    /\ last.outcome = SessionNotFound
    /\ last.result = NoResult

\* C24: no step lowers a session's cursor, and the cursor moves only by an
\* advance on that session, by one; start leaves the cursor on 0 and returns
\* question 0, and a successful advance returns the question under the new
\* cursor k >= 1, null when k is at or past the number of questions. So start
\* and the advances after it return the questions 0, 1, ..., n-1 once each
\* and in order, and the n-th advance returns null.
C24_CursorWalksOnce ==
    [][ /\ \A s \in 1..Len(sessions) :
             /\ sessions'[s].currentQuestionIndex >= sessions[s].currentQuestionIndex
             /\ sessions'[s].currentQuestionIndex # sessions[s].currentQuestionIndex
                  => /\ last'.op = "advance"
                     /\ last'.outcome = OK
                     /\ last'.sessionId = s
                     /\ sessions'[s].currentQuestionIndex
                          = sessions[s].currentQuestionIndex + 1
        /\ (last'.op = "start" /\ last'.outcome = OK)
             => /\ sessions'[last'.sessionId].currentQuestionIndex = 0
                /\ last'.result.has
                /\ last'.result.question
                     = interviews[sessions'[last'.sessionId].interviewId].questions[1]
        /\ (last'.op = "advance" /\ last'.outcome = OK)
             => LET k == sessions'[last'.sessionId].currentQuestionIndex
                    questions == interviews[sessions'[last'.sessionId].interviewId].questions
                IN /\ k >= 1
                   /\ IF k < Len(questions)
                      THEN /\ last'.result.has
                           /\ last'.result.question = questions[k + 1]
                      ELSE ~last'.result.has ]_vars

\* the second advance on an interview of two questions returned null, after
\* start returned question 0 and the first advance question 1; nothing was
\* answered on the way
C24_WalkedToTheEnd ==
    /\ last.op = "advance"
    /\ last.outcome = OK
    /\ LastByOwner
    /\ Len(interviews[sessions[last.sessionId].interviewId].questions) = 2
    /\ sessions[last.sessionId].currentQuestionIndex = 2
    /\ ~last.result.has
    /\ AnswersOfSession(last.sessionId) = {}

\* C25: a submitAnswer that is refused changes no answer; one that succeeds
\* changes or adds at most one row, that of its session and index. A row that
\* was there keeps its id, sessionId, questionIndex, questionText and
\* evaluation (only transcription and answeredAt can differ), a new row has a
\* null evaluation and the text of the interview's question at that index, and
\* no row is removed: submitAnswer never writes a score.
C25_UpsertFrame ==
    [][ last'.op = "submitAnswer"
        => IF last'.outcome # OK
           THEN answers' = answers
           ELSE /\ Cardinality(answers' \ answers) <= 1
                /\ \A a \in answers :
                     \E b \in answers' :
                       /\ SameRow(a, b)
                       /\ b.questionText = a.questionText
                       /\ b.evaluation = a.evaluation
                /\ \A b \in answers' \ answers :
                     /\ b.sessionId = last'.sessionId
                     /\ b.questionIndex = last'.questionIndex
                     /\ (~ \E a \in answers : SameRow(a, b))
                          => /\ ~last'.result.existing
                             /\ b.evaluation = [graded |-> FALSE, score |-> 0]
                             /\ b.questionText
                                  = interviews[sessions[last'.sessionId].interviewId]
                                      .questions[last'.questionIndex + 1].question
                /\ last'.result.existing
                     => Cardinality(answers') = Cardinality(answers) ]_vars

\* an answer that carries an evaluation (its session still in progress after
\* a complete that broke off) was submitted again: the evaluation stayed
C25_ResubmittedKeepsEvaluation ==
    /\ last.op = "submitAnswer"
    /\ last.outcome = OK
    /\ last.result.existing
    /\ \E a \in answers :
         /\ a.sessionId = last.sessionId
         /\ a.questionIndex = last.questionIndex
         /\ a.evaluation.graded
         /\ a.evaluation.score = 6
         /\ a.transcription = "b"

\* the entry the running complete stores next has no answer of the session
NextEntryUnmatched ==
    /\ call.active
    /\ call.i <= Len(call.result.evaluations)
    /\ ~ \E a \in AnswersOfSession(call.sessionId) :
           a.questionIndex = call.result.evaluations[call.i].questionIndex

\* C26: a turn of the store loop creates and removes no answer and changes
\* only answers of the session with the entry's questionIndex, giving them the
\* entry's evaluation; for an entry that matches no answer it changes nothing
\* and the call goes on to the next entry rather than failing; the steps
\* before and after the loop change no answer, and the call ends COMPLETED.
C26_UnmatchedDropped ==
    [][ /\ (call.active /\ call'.active /\ call'.i = call.i + 1)
             => LET entry == call.result.evaluations[call.i]
                IN /\ Cardinality(answers') = Cardinality(answers)
                   /\ \A a \in answers : \E b \in answers' : SameRow(a, b)
                   /\ \A b \in answers' \ answers :
                        /\ b.sessionId = call.sessionId
                        /\ b.questionIndex = entry.questionIndex
                        /\ b.evaluation = [graded |-> TRUE, score |-> entry.score]
        /\ (NextEntryUnmatched /\ call' # call)
             => /\ call'.active
                /\ call'.i = call.i + 1
                /\ answers' = answers
        /\ (~call.active /\ call'.active) => answers' = answers
        /\ (call.active /\ ~call'.active /\ last'.outcome = OK)
             => /\ answers' = answers
                /\ sessions'[call.sessionId].status = COMPLETED ]_vars

\* a complete succeeded whose grader answer had an entry for question 2, which
\* no interview has, next to one for the answered question 0: one answer
\* before and after, with the evaluation of its own entry
C26_ExtraEntryIgnored ==
    /\ last.op = "complete"
    /\ last.outcome = OK
    /\ last.result.path = "graded"
    /\ last.result.evaluations
         = << [questionIndex |-> 2, score |-> 6], [questionIndex |-> 0, score |-> 10] >>
    /\ Cardinality(AnswersOfSession(last.sessionId)) = 1
    /\ \A a \in AnswersOfSession(last.sessionId) :
         a.questionIndex = 0 /\ a.evaluation = [graded |-> TRUE, score |-> 10]
    /\ sessions[last.sessionId].status = COMPLETED

\* C27: complete by the owner on a COMPLETED session succeeds, changes no
\* session, answer or interview and does not call the grader; it returns one
\* evaluation for each answer of the session that carries one, with that
\* answer's questionIndex and score, in ascending questionIndex order, and as
\* overallScore the mean of those scores, 0 when no answer carries an
\* evaluation.
C27_ReplayFromStore ==
    [][ ( /\ last'.op = "complete"
          /\ last'.sessionId \in 1..Len(sessions)
          /\ sessions[last'.sessionId].userId = last'.userId
          /\ sessions[last'.sessionId].status = COMPLETED )
        => /\ last'.outcome = OK
           /\ sessions' = sessions
           /\ answers' = answers
           /\ interviews' = interviews
           /\ graderCalls' = graderCalls
           /\ LET evaluations == last'.result.evaluations
                  stored == GradedAnswers(last'.sessionId)
                  mean == last'.result.overallScore
              IN /\ Len(evaluations) = Cardinality(stored)
                 /\ \A i \in 1..Len(evaluations) :
                      \E a \in stored :
                        /\ a.questionIndex = evaluations[i].questionIndex
                        /\ a.evaluation.score = evaluations[i].score
                 /\ \A i, j \in 1..Len(evaluations) :
                      i < j => evaluations[i].questionIndex < evaluations[j].questionIndex
                 /\ IF stored = {}
                    THEN mean = <<0, 1>>
                    ELSE /\ mean[2] > 0
                         /\ mean[1] * Len(evaluations)
                              = mean[2] * SumSeq([i \in 1..Len(evaluations) |->
                                                    evaluations[i].score]) ]_vars

\* a replay returned the stored evaluations of questions 0 and 1, scores 6
\* and 10, and their mean 8
C27_ReplayedTwo ==
    /\ last.op = "complete"
    /\ last.outcome = OK
    /\ last.result.path = "replay"
    /\ last.result.evaluations
         = << [questionIndex |-> 0, score |-> 6], [questionIndex |-> 1, score |-> 10] >>
    /\ last.result.overallScore = <<8, 1>>
    /\ Cardinality(GradedAnswers(last.sessionId)) = 2

\* C28: no start, currentQuestion, submitAnswer, advance or complete call
\* changes the interview store; an interview once stored is never changed or
\* removed by any step; and every stored interview has totalQuestions equal to
\* the length of its questions list, from the step that created it.
C28_CatalogImmutable ==
    [][ /\ last'.op \in {"start", "currentQuestion", "submitAnswer", "advance", "complete"}
             => interviews' = interviews
        /\ \A i \in DOMAIN interviews :
             /\ i \in DOMAIN interviews'
             /\ interviews'[i] = interviews[i]
        /\ \A i \in DOMAIN interviews' :
             interviews'[i].totalQuestions = Len(interviews'[i].questions) ]_vars

\* a session on a generated interview of two questions was started, answered,
\* advanced and completed with a graded answer, and the interview is as it was
\* generated
C28_UsedAndUnchanged ==
    /\ last.op = "complete"
    /\ last.outcome = OK
    /\ DOMAIN interviews = {"i1"}
    /\ Len(interviews["i1"].questions) = 2
    /\ interviews["i1"].totalQuestions = 2
    /\ interviews["i1"].questions[1].category = "conceptual"
    /\ sessions[last.sessionId].interviewId = "i1"
    /\ sessions[last.sessionId].status = COMPLETED
    /\ sessions[last.sessionId].currentQuestionIndex = 1
    /\ GradedAnswers(last.sessionId) # {}

\* C29 as stated: after a complete that succeeded, every answer of the session
\* carries an evaluation, whatever the grader answered: also when its
\* evaluations cover only some of the answered questions, or none.
C29_AllAnswersEvaluated ==
    [][ (last'.op = "complete" /\ last'.outcome = OK)
        => \A a \in answers' :
             a.sessionId = last'.sessionId => a.evaluation.graded ]_vars

\* the grader's answer to the running complete has an entry for the question
NamedByGrader(questionIndex) ==
    \E i \in 1..Len(call.result.evaluations) :
      call.result.evaluations[i].questionIndex = questionIndex

\* C29 amended: when a grading complete succeeds, every answer of the session
\* whose questionIndex the grader's evaluations name carries an evaluation,
\* with the score of one of those entries; an answer the grader does not name
\* is not written by the call: each turn of the store loop leaves the answers
\* with another questionIndex as they were, so such an answer keeps the
\* evaluation it had, null if it was never graded.
C29_NamedAnswersEvaluated ==
    [][ /\ (call.active /\ call'.active /\ call'.i = call.i + 1)
             => \A a \in answers :
                  ( \/ a.sessionId # call.sessionId
                    \/ a.questionIndex # call.result.evaluations[call.i].questionIndex )
                    => a \in answers'
        /\ (call.active /\ ~call'.active /\ last'.outcome = OK)
             => \A a \in answers' :
                  (a.sessionId = call.sessionId /\ NamedByGrader(a.questionIndex))
                    => /\ a.evaluation.graded
                       /\ \E i \in 1..Len(call.result.evaluations) :
                            /\ call.result.evaluations[i].questionIndex = a.questionIndex
                            /\ call.result.evaluations[i].score = a.evaluation.score ]_vars

\* a complete succeeded on two answers with a grader answer that names
\* question 1 alone: answer 1 carries its evaluation, answer 0 none
C29_PartlyEvaluated ==
    /\ last.op = "complete"
    /\ last.outcome = OK
    /\ last.result.path = "graded"
    /\ last.result.evaluations = << [questionIndex |-> 1, score |-> 6] >>
    /\ sessions[last.sessionId].status = COMPLETED
    /\ \E a \in AnswersOfSession(last.sessionId) :
         a.questionIndex = 1 /\ a.evaluation = [graded |-> TRUE, score |-> 6]
    /\ \E a \in AnswersOfSession(last.sessionId) :
         a.questionIndex = 0 /\ ~a.evaluation.graded

\* C30: with two submitAnswer calls interleaved at the await between the
\* lookup and the save, the store never holds more than one answer for a
\* (sessionId, questionIndex).
C30_AtMostOneAnswer ==
    \A s \in SessionIds, q \in 0..MaxQuestions :
      Cardinality(FindAnswers(s, q)) <= 1

\* caller c's complete is at a turn of its store loop that names an answer
StoresOnto(c, a) ==
    /\ call[c].pc = "storing"
    /\ call[c].i <= Len(call[c].result.evaluations)
    /\ a.sessionId = call[c].sessionId
    /\ a.questionIndex = call[c].result.evaluations[call[c].i].questionIndex

\* C31: with two complete calls on one IN_PROGRESS session that has an answer,
\* interleaved at their awaits, the grader answers at most one of them, and a
\* turn of a store loop writes an evaluation only onto an answer that carries
\* none, so no answer is evaluated by both calls.
C31_GradedByOneCall ==
    [][ /\ \A s \in SessionIds : graderCalls'[s].ok <= 1
        /\ \A c \in Callers, a \in answers :
             (StoresOnto(c, a) /\ call'[c] # call[c]) => ~a.evaluation.graded ]_vars

\* C32: with an advance and a complete on one session interleaved at their
\* awaits, a session the store holds as COMPLETED stays COMPLETED, and the save
\* that records COMPLETED keeps the cursor the store holds, so that an advance
\* that returned in between is not undone.
C32_CompletedStaysNoAdvanceLost ==
    [][ \A s \in 1..Len(sessions) :
          /\ sessions[s].status = COMPLETED => sessions'[s].status = COMPLETED
          /\ sessions'[s].status = COMPLETED =>
               sessions'[s].currentQuestionIndex >= sessions[s].currentQuestionIndex
      ]_vars

\* the answer rows without what grading writes: id and transcription
Transcribed(rows) ==
    {[sessionId |-> a.sessionId, questionIndex |-> a.questionIndex,
      copy |-> a.copy, transcription |-> a.transcription] : a \in rows}

\* C33: with a submitAnswer and a complete on one session interleaved at
\* their awaits, no answer is created and no transcription changes once the
\* store holds the session as COMPLETED, and when the save of a complete
\* records COMPLETED every answer the grader was given has in the store the
\* transcription the grader was given.
C33_NoAnswerAfterCompleted ==
    [][ /\ \A s \in 1..Len(sessions) :
             sessions[s].status = COMPLETED =>
               Transcribed(AnswersOfSession(s)') = Transcribed(AnswersOfSession(s))
        /\ \A c \in Callers :
             (call[c].pc = "storing" /\ call'[c].pc = "done") =>
               \A k \in 1..Len(call[c].loaded), a \in answers :
                 (/\ a.sessionId = call[c].loaded[k].sessionId
                  /\ a.questionIndex = call[c].loaded[k].questionIndex
                  /\ a.copy = call[c].loaded[k].copy)
                   => a.transcription = call[c].loaded[k].transcription ]_vars

\* session s is in progress and has an answer
Gradable(s) ==
    /\ s \in 1..Len(sessions)
    /\ sessions[s].status = IN_PROGRESS
    /\ AnswersOfSession(s) # {}

\* C34: when the owner calls complete again after every failure and the
\* grader does not fail for ever, a session in progress that has an answer
\* is eventually COMPLETED by a complete the grader answered; and after a
\* complete that failed in grading the session is still in progress with its
\* answers, so that a complete the grader answers can be taken.
C34_RetryCompletes ==
    /\ \A s \in SessionIds :
         Gradable(s) ~> (/\ s \in 1..Len(sessions)
                         /\ sessions[s].status = COMPLETED
                         /\ graderCalls[s].ok > 0)
    /\ [](\A s \in SessionIds :
            (/\ last.op = "complete"
             /\ last.outcome = EvaluationFailed
             /\ last.sessionId = s)
              => Gradable(s) /\ ENABLED <<CompleteGraded(s)>>_vars)

\* a complete failed in grading and the next complete of the session succeeded
C34_CompletedAfterFailure ==
    /\ last.op = "complete"
    /\ last.outcome = OK
    /\ last.result.path = "graded"
    /\ graderCalls[last.sessionId].failed > 0
    /\ sessions[last.sessionId].status = COMPLETED

\* a number between 0 and 10; NaN is not
InScale(x) == x[2] > 0 /\ 0 <= x[1] /\ x[1] <= 10 * x[2]

\* C35: the overallScore a complete returns is a number in [0, 10], from a
\* grading, the grader supplying it or not, and from a replay, for every
\* grader answer with integer scores and an overall score in -1..11.
C35_OverallScoreInScale ==
    (last.op = "complete" /\ last.outcome = OK) => InScale(last.result.overallScore)

\* C36: in every state each session names an interview that exists and whose
\* owner is the session's owner, each answer names a session that exists and
\* a question index within 0..totalQuestions - 1 of that session's interview,
\* and a session operation that succeeded read the interview of its caller.
C36_ReferencesOwned ==
    /\ \A s \in 1..Len(sessions) :
         /\ sessions[s].interviewId \in DOMAIN interviews
         /\ interviews[sessions[s].interviewId].userId = sessions[s].userId
    /\ \A a \in answers :
         /\ a.sessionId \in 1..Len(sessions)
         /\ a.questionIndex >= 0
         /\ a.questionIndex < TotalQuestions(a.sessionId)
    /\ (last.op \in SessionOps /\ last.outcome = OK) =>
         interviews[sessions[last.sessionId].interviewId].userId = last.userId

\* the owner of interview i2 has a session on it with an answer to its last
\* question, and has read its current question
C36_OwnSessionAnswered ==
    /\ last.op = "currentQuestion"
    /\ last.outcome = OK
    /\ last.result.has
    /\ last.userId = "u2"
    /\ sessions[last.sessionId].interviewId = "i2"
    /\ \E a \in AnswersOfSession(last.sessionId) :
         a.questionIndex = TotalQuestions(last.sessionId) - 1

\* C37: on a session in progress a submitAnswer by the owner succeeds for
\* every question index within 0..totalQuestions - 1, wherever the cursor
\* is, and a complete by the owner succeeds as soon as the session has an
\* answer, unless the grader fails, wherever the cursor is and however many
\* questions have no answer.
C37_CursorFree ==
    [][ \A s \in 1..Len(sessions) :
          (/\ last'.sessionId = s
           /\ last'.userId = sessions[s].userId
           /\ sessions[s].status = IN_PROGRESS)
            => /\ (/\ last'.op = "submitAnswer"
                   /\ last'.questionIndex >= 0
                   /\ last'.questionIndex < TotalQuestions(s))
                    => last'.outcome = OK
               /\ (last'.op = "complete" /\ AnswersOfSession(s) # {})
                    => \/ last'.outcome = OK /\ sessions'[s].status = COMPLETED
                       \/ /\ last'.outcome = EvaluationFailed
                          /\ graderCalls'[s].failed = graderCalls[s].failed + 1 ]_vars

\* a complete succeeded on a session of two questions whose cursor is still
\* at the first question and whose only answer, submitted ahead of the
\* cursor, is to the second
C37_CompletedOffCursor ==
    /\ last.op = "complete"
    /\ last.outcome = OK
    /\ last.result.path = "graded"
    /\ TotalQuestions(last.sessionId) = 2
    /\ sessions[last.sessionId].currentQuestionIndex = 0
    /\ AnswersOfSession(last.sessionId) # {}
    /\ \A a \in AnswersOfSession(last.sessionId) : a.questionIndex = 1

====
